---- MODULE Spec2Model ----
(***************************************************************************)
(* Model of Source/Urho3D/Graphics/SceneBatchCollector.cpp: the per-frame  *)
(* scene batch collector (source-batch collection, light processing,       *)
(* forward-light accumulation, pipeline-state cache and batch assembly).   *)
(*                                                                         *)
(* Pointers are modelled as integers, the null pointer as 0.               *)
(* Specifications:                                                         *)
(*   SpecCache          one SubPassPipelineStateCache under arbitrary      *)
(*                      GetOrCreate / Lookup / hash-change sequences       *)
(*   SpecIsValid        PassData::IsValid as a pure function               *)
(*   SpecFindTechnique  SceneBatchCollector::FindTechnique as a pure       *)
(*                      function                                           *)
(*   Spec               the frame pipeline of SceneBatchCollector          *)
(***************************************************************************)
EXTENDS Integers, Sequences, FiniteSets, TLC

VARIABLES
    \* ---- pipeline-state cache under test (SpecCache)
    cache_,             \* SubPassPipelineStateCache::cache_ : key -> entry
    last,               \* the last cache operation, its key and its result
    \* ---- live objects shared by SpecCache and Spec
    geometryHash,       \* Geometry::GetPipelineStateHash() per geometry
    materialHash,       \* Material::GetPipelineStateHash() per material
    passHash,           \* Pass::GetPipelineStateHash() per pass
    created,            \* number of ScenePipelineStateFactory::CreatePipelineState
                        \* calls so far
    \* ---- pure functions under test
    passArg,            \* PassData fields IsValid reads
    passRet,            \* results of successive IsValid evaluations
    techArg,            \* inputs of FindTechnique
    techRet,            \* result of FindTechnique, <<>> before the call
    \* ---- SceneBatchCollector (Spec)
    pc,                 \* position of the caller in the frame protocol
    numFrames,          \* frames started so far
    traits_,            \* transient_.traits_ : drawable index -> trait set
    visibleGeometries_, \* ThreadedVector<Drawable*>
    visibleLightsTemp_, \* ThreadedVector<Light*>
    visibleLights_,     \* ea::vector<Light*>
    passes_,            \* ea::vector<PassData>
    baseBatchesLookup_, \* pass index -> <<pass number, "unlit"|"lit">>
    drawableLighting_,  \* per-drawable light accumulators
    mainLight_,         \* selected main directional light
    cachedLightData_,   \* light -> LightData (lit geometries), kept across frames
    visibleLightsData_, \* per visible light: the light owning its LightData
    world,              \* the scene: what techniques provide which passes
    input,              \* arguments of the frame's UpdateAndCollectSourceBatches
    frameLog,           \* observations of the current frame (history)
    \* ---- the work queue and the calling thread (SpecTasks)
    tasks,              \* the tasks dispatched in this frame, in dispatch order
    main,               \* loop variables of the calling thread
    sceneBatchesWithoutPipelineStates_
                        \* ThreadedVector<SceneBatch*>: slots whose lookup missed

cacheVars == <<cache_, last>>
hashVars == <<geometryHash, materialHash, passHash>>
fnVars == <<passArg, passRet, techArg, techRet>>
frameVars == <<pc, numFrames, traits_, visibleGeometries_, visibleLightsTemp_,
               visibleLights_, passes_, baseBatchesLookup_, drawableLighting_,
               mainLight_, cachedLightData_, visibleLightsData_, world, input,
               frameLog, tasks, main, sceneBatchesWithoutPipelineStates_>>
taskVars == <<tasks, main, sceneBatchesWithoutPipelineStates_>>
vars == <<cacheVars, hashVars, created, fnVars, frameVars>>

-----------------------------------------------------------------------------
(* Basic values *)

NULL == 0

\* The sentinel 0xffffffff; it is only ever compared for equality, and is
\* written as the largest integer the checker represents.
M_MAX_UNSIGNED == 2147483647

\* Values a pipeline-state hash takes in the model.
HashValues == {0, 1}

\* Number of pipeline states the factory may create in one behaviour.
MaxCreated == 4

Range(s) == {s[i] : i \in 1..Len(s)}

-----------------------------------------------------------------------------
(* SubPassPipelineStateKey / Entry / Cache *)

SubPassPipelineStateKey(drawableHash, geometry, material, pass) ==
    [drawableHash_ |-> drawableHash, geometry_ |-> geometry,
     material_ |-> material, pass_ |-> pass]

\* A PipelineState object: its identity and the state of the geometry,
\* material and pass it was compiled from.  NoPipelineState is the null
\* pointer.
NoPipelineState == [id |-> 0, geometryHash |-> 0, materialHash |-> 0, passHash |-> 0]

\* ScenePipelineStateFactory::CreatePipelineState: a new object, compiled
\* from the key's geometry, material and pass as they are now.
CreatePipelineState(id, key) ==
    [id |-> id, geometryHash |-> geometryHash[key.geometry_],
     materialHash |-> materialHash[key.material_],
     passHash |-> passHash[key.pass_]]

\* A value-initialised entry, as cache_[key] inserts it.
SubPassPipelineStateEntry ==
    [geometryHash_ |-> 0, materialHash_ |-> 0, passHash_ |-> 0,
     pipelineState_ |-> NoPipelineState, invalidated_ |-> FALSE]

\* The three comparisons of captured against live hashes.
HashesDiffer(key, entry) ==
    \/ geometryHash[key.geometry_] # entry.geometryHash_
    \/ materialHash[key.material_] # entry.materialHash_
    \/ passHash[key.pass_] # entry.passHash_

\* GetPipelineState that compares the hashes without looking at the
\* invalidated_ flag first.
GetPipelineStateIgnoringFlag(cache, key) ==
    IF key \notin DOMAIN cache
    THEN [result |-> NoPipelineState, cache |-> cache]
    ELSE IF HashesDiffer(key, cache[key])
         THEN [result |-> NoPipelineState,
               cache |-> [cache EXCEPT ![key].invalidated_ = TRUE]]
         ELSE [result |-> cache[key].pipelineState_, cache |-> cache]

\* GetPipelineState: the returned state (null for a miss) and the cache
\* with the entry's invalidated_ flag possibly raised.
GetPipelineState(cache, key) ==
    IF key \notin DOMAIN cache \/ cache[key].invalidated_
    THEN [result |-> NoPipelineState, cache |-> cache]
    ELSE IF HashesDiffer(key, cache[key])
         THEN [result |-> NoPipelineState,
               cache |-> [cache EXCEPT ![key].invalidated_ = TRUE]]
         ELSE [result |-> cache[key].pipelineState_, cache |-> cache]

\* GetOrCreatePipelineState: newState is what the factory would return.
\* The entry's three hash fields are never assigned.
GetOrCreatePipelineState(cache, key, newState) ==
    LET withEntry == IF key \in DOMAIN cache THEN cache
                     ELSE cache @@ (key :> SubPassPipelineStateEntry)
        entry == withEntry[key]
        create == \/ entry.pipelineState_ = NoPipelineState
                  \/ entry.invalidated_
                  \/ HashesDiffer(key, entry)
    IN IF create
       THEN [result |-> newState, createdNew |-> TRUE,
             cache |-> [withEntry EXCEPT ![key].pipelineState_ = newState,
                                         ![key].invalidated_ = FALSE]]
       ELSE [result |-> entry.pipelineState_, createdNew |-> FALSE,
             cache |-> withEntry]

-----------------------------------------------------------------------------
(* PassData::IsValid *)

ScenePassTypes == {"Unlit", "ForwardLitBase", "ForwardUnlitBase"}

CheckSubPasses(pass, hasBase, hasFirstLight, hasAdditionalLight) ==
    /\ (pass.unlitBasePassIndex_ # M_MAX_UNSIGNED) = hasBase
    /\ (pass.litBasePassIndex_ # M_MAX_UNSIGNED) = hasFirstLight
    /\ (pass.additionalLightPassIndex_ # M_MAX_UNSIGNED) = hasAdditionalLight

\* IsValid with the second ForwardLitBase alternative (base, lit-base and
\* additional-light all present) left out.
IsValidWithoutBaseAlternative(pass) ==
    CASE pass.desc_.type_ = "Unlit" -> CheckSubPasses(pass, TRUE, FALSE, FALSE)
      [] pass.desc_.type_ = "ForwardLitBase" ->
            CheckSubPasses(pass, FALSE, TRUE, TRUE)
      [] pass.desc_.type_ = "ForwardUnlitBase" ->
            CheckSubPasses(pass, TRUE, FALSE, TRUE)
      [] OTHER -> FALSE

IsValid(pass) ==
    CASE pass.desc_.type_ = "Unlit" -> CheckSubPasses(pass, TRUE, FALSE, FALSE)
      [] pass.desc_.type_ = "ForwardLitBase" ->
            \/ CheckSubPasses(pass, FALSE, TRUE, TRUE)
            \/ CheckSubPasses(pass, TRUE, TRUE, TRUE)
      [] pass.desc_.type_ = "ForwardUnlitBase" ->
            CheckSubPasses(pass, TRUE, FALSE, TRUE)
      [] OTHER -> FALSE

-----------------------------------------------------------------------------
(* SceneBatchCollector::FindTechnique *)

\* The scan with the LOD test written as > instead of >=.
RECURSIVE FindTechniqueFromStrictLod(_, _, _, _)
FindTechniqueFromStrictLod(techniques, materialQuality, lodDistance, i) ==
    IF i > Len(techniques)
    THEN IF Len(techniques) > 0 THEN techniques[Len(techniques)].technique_
         ELSE NULL
    ELSE LET entry == techniques[i]
             tech == entry.technique_
         IN IF tech = NULL \/ ~entry.supported \/ materialQuality < entry.qualityLevel_
            THEN FindTechniqueFromStrictLod(techniques, materialQuality,
                                            lodDistance, i + 1)
            ELSE IF lodDistance > entry.lodDistance_
                 THEN tech
                 ELSE FindTechniqueFromStrictLod(techniques, materialQuality,
                                                 lodDistance, i + 1)

\* The scan of the technique list from entry i on.
RECURSIVE FindTechniqueFrom(_, _, _, _)
FindTechniqueFrom(techniques, materialQuality, lodDistance, i) ==
    IF i > Len(techniques)
    THEN IF Len(techniques) > 0 THEN techniques[Len(techniques)].technique_
         ELSE NULL
    ELSE LET entry == techniques[i]
             tech == entry.technique_
         IN IF tech = NULL \/ ~entry.supported \/ materialQuality < entry.qualityLevel_
            THEN FindTechniqueFrom(techniques, materialQuality, lodDistance, i + 1)
            ELSE IF lodDistance >= entry.lodDistance_
                 THEN tech
                 ELSE FindTechniqueFrom(techniques, materialQuality, lodDistance, i + 1)

FindTechnique(techniques, materialQuality, lodDistance) ==
    IF Len(techniques) = 1
    THEN techniques[1].technique_
    ELSE FindTechniqueFrom(techniques, materialQuality, lodDistance, 1)

-----------------------------------------------------------------------------
(* The scene the collector runs on *)

\* The drawables of the scene's octree: geometries and lights.
Geometries == world.geometries
Lights == world.lights
Drawables == Geometries \cup Lights

\* Worker thread indices: numThreads_ = workQueue_->GetNumThreads() + 1.
Threads == {0, 1}

\* Frames started in one behaviour, and CollectSceneBatches calls per frame.
MaxFrames == 2
MaxCollects == 2

\* Intermediate batches of one pass subset that phase 1 is split over.
MaxBatches == 4

MaxVertexLights == 4
M_LARGE_VALUE == 100000000
M_LARGE_EPSILON == 1

\* Technique::GetPassIndex: the index registered for a pass name; an empty
\* name denotes an absent sub-pass.
GetPassIndex(name) ==
    CASE name = "base" -> 0
      [] name = "litbase" -> 1
      [] name = "light" -> 2
      [] OTHER -> M_MAX_UNSIGNED

PassIndices == {0, 1, 2}

\* Technique::GetPass: the pass object of a technique at a pass index.
GetPass(technique, passIndex) ==
    IF passIndex \in world.techPasses[technique]
    THEN technique * 10 + passIndex + 1
    ELSE NULL

\* Technique 3 is the one the device does not support.
Techniques == {1, 2, 3}
PassObjects == {t * 10 + i + 1 : t \in Techniques, i \in PassIndices}
GeometryObjects == {1, 2}
DefaultMaterial == 2
MaterialObjects == {1, DefaultMaterial}

\* Drawable::GetBatches(): the source batches of a geometry.
SourceBatches(drawable) ==
    << [geometry_ |-> 1, material_ |-> 1],
       [geometry_ |-> 2, material_ |-> NULL] >>

\* Material::GetTechniques().
MaterialTechniques(material) ==
    IF material = DefaultMaterial
    THEN << [technique_ |-> 3, supported |-> FALSE, qualityLevel_ |-> 0,
             lodDistance_ |-> 0],
            [technique_ |-> 2, supported |-> TRUE, qualityLevel_ |-> 0,
             lodDistance_ |-> 0] >>
    ELSE << [technique_ |-> 1, supported |-> TRUE, qualityLevel_ |-> 0,
             lodDistance_ |-> 0] >>

\* Drawable::GetPipelineStateHash(), GetLodDistance(), GetLightMask().
DrawableHash(drawable) == world.drawableHash[drawable]
LodDistance(drawable) == 0
LightMask(drawable) == world.lightMask[drawable]

\* Light attributes.  GetIntensityDivisor() is positive; its inverse
\* 1.0f / GetIntensityDivisor() is kept in units of 1/PenaltyUnit.
PenaltyUnit == 6
LightType(light) == world.lightType[light]
LightVisible(light) == TRUE
IntensityDivisor(light) == world.intensityDivisor[light]
LightIntensityPenalty(light) == PenaltyUnit \div IntensityDivisor(light)
LightImportance(light) == "LI_AUTO"
LightDistance(light, geometry) == geometry
InsideLightVolume(light, geometry) == TRUE

-----------------------------------------------------------------------------
(* ThreadedVector: one growable buffer per thread, read in thread order *)

TVClear == [t \in 1..Cardinality(Threads) |-> <<>>]

TVInsert(tv, threadIndex, value) ==
    [tv EXCEPT ![threadIndex + 1] = Append(@, value)]

RECURSIVE TVFlattenFrom(_, _)
TVFlattenFrom(tv, t) ==
    IF t > Len(tv) THEN <<>> ELSE tv[t] \o TVFlattenFrom(tv, t + 1)

TVFlatten(tv) == TVFlattenFrom(tv, 1)

-----------------------------------------------------------------------------
(* DrawableLightData: the per-drawable light accumulator.  It is a list of  *)
(* [penalty, lightIndex] in ascending penalty order; the first              *)
(* maxPixelLights_ entries are pixel lights, the rest vertex lights.        *)

DrawableLightDataReset == <<>>

RECURSIVE InsertByPenalty(_, _, _)
InsertByPenalty(lights, item, i) ==
    IF i > Len(lights) THEN Append(lights, item)
    ELSE IF item.penalty < lights[i].penalty
         THEN SubSeq(lights, 1, i - 1) \o <<item>> \o SubSeq(lights, i, Len(lights))
         ELSE InsertByPenalty(lights, item, i + 1)

AccumulateLight(lights, accumContext, penalty) ==
    LET item == [penalty |-> penalty, lightIndex |-> accumContext.lightIndex_]
        inserted == InsertByPenalty(lights, item, 1)
        maxLights == accumContext.maxPixelLights_ + MaxVertexLights
    IN IF Len(inserted) > maxLights THEN SubSeq(inserted, 1, maxLights)
       ELSE inserted

\* GetVertexLightIndices: MaxVertexLights light indices, M_MAX_UNSIGNED
\* where there is no light.
GetVertexLightIndices(lights) ==
    [i \in 1..MaxVertexLights |->
        IF i + 1 <= Len(lights) THEN lights[i + 1].lightIndex ELSE M_MAX_UNSIGNED]

-----------------------------------------------------------------------------
(* PassData *)

\* A default-constructed PassData, as passes_.resize() appends it.
PassData ==
    [desc_ |-> [type_ |-> "Unlit", unlitBasePassName_ |-> "",
                litBasePassName_ |-> "", additionalLightPassName_ |-> ""],
     unlitBasePassIndex_ |-> 0, litBasePassIndex_ |-> 0,
     additionalLightPassIndex_ |-> 0,
     unlitBatches_ |-> TVClear, litBatches_ |-> TVClear,
     unlitBaseSceneBatches_ |-> <<>>, litBaseSceneBatches_ |-> <<>>,
     unlitPipelineStateCache_ |-> <<>>, litPipelineStateCache_ |-> <<>>]

IntermediateSceneBatch(geometry, sourceBatchIndex, basePass, additionalPass) ==
    [geometry_ |-> geometry, sourceBatchIndex_ |-> sourceBatchIndex,
     basePass_ |-> basePass, additionalPass_ |-> additionalPass]

CreateIntermediateSceneBatch(pass, geometry, sourceBatchIndex, unlitBasePass, litBasePass, additionalLightPass) ==
    IF pass.desc_.type_ = "Unlit" \/ additionalLightPass = NULL
    THEN IntermediateSceneBatch(geometry, sourceBatchIndex, unlitBasePass, NULL)
    ELSE IF /\ pass.desc_.type_ = "ForwardUnlitBase"
            /\ unlitBasePass # NULL /\ additionalLightPass # NULL
    THEN IntermediateSceneBatch(geometry, sourceBatchIndex, unlitBasePass,
                                additionalLightPass)
    ELSE IF /\ pass.desc_.type_ = "ForwardLitBase"
            /\ litBasePass # NULL /\ additionalLightPass # NULL
    THEN IntermediateSceneBatch(geometry, sourceBatchIndex, litBasePass,
                                additionalLightPass)
    ELSE IntermediateSceneBatch(NULL, 0, NULL, NULL)

PassDataClear(pass) ==
    [pass EXCEPT !.unlitBatches_ = TVClear, !.litBatches_ = TVClear]

-----------------------------------------------------------------------------
(* UpdateAndCollectSourceBatchesForThread *)

\* The "Fill passes" loop for source batch i (1-based here, stored 0-based).
CollectSourceBatch(st, threadIndex, drawable, i) ==
    LET sourceBatch == SourceBatches(drawable)[i]
        material == IF sourceBatch.material_ # NULL THEN sourceBatch.material_
                    ELSE DefaultMaterial
        technique == FindTechnique(MaterialTechniques(material),
                                   world.materialQuality, LodDistance(drawable))
        sceneBatch(p) ==
            CreateIntermediateSceneBatch(st.passes[p], drawable, i - 1,
                GetPass(technique, st.passes[p].unlitBasePassIndex_),
                GetPass(technique, st.passes[p].litBasePassIndex_),
                GetPass(technique, st.passes[p].additionalLightPassIndex_))
    IN IF technique = NULL THEN st
       ELSE [st EXCEPT
               !.passes = [p \in DOMAIN st.passes |->
                   IF sceneBatch(p).additionalPass_ # NULL
                   THEN [st.passes[p] EXCEPT !.litBatches_ =
                            TVInsert(@, threadIndex, sceneBatch(p))]
                   ELSE IF sceneBatch(p).basePass_ # NULL
                   THEN [st.passes[p] EXCEPT !.unlitBatches_ =
                            TVInsert(@, threadIndex, sceneBatch(p))]
                   ELSE st.passes[p]],
               !.traits[drawable] =
                   IF \E p \in DOMAIN st.passes : sceneBatch(p).additionalPass_ # NULL
                   THEN @ \cup {"ForwardLit"} ELSE @]

RECURSIVE CollectSourceBatchesFrom(_, _, _, _)
CollectSourceBatchesFrom(st, threadIndex, drawable, i) ==
    IF i > Len(SourceBatches(drawable)) THEN st
    ELSE CollectSourceBatchesFrom(CollectSourceBatch(st, threadIndex, drawable, i),
                                  threadIndex, drawable, i + 1)

\* The body of the loop for one drawable that is not too far.
ProcessDrawable(st, threadIndex, drawable) ==
    IF drawable \in Geometries
    THEN LET visible ==
                 [st EXCEPT !.visibleGeometries = TVInsert(@, threadIndex, drawable),
                            !.traits[drawable] = @ \cup {"DrawableVisibleGeometry"}]
             collected == CollectSourceBatchesFrom(visible, threadIndex, drawable, 1)
         IN [collected EXCEPT !.lighting[drawable] = DrawableLightDataReset]
    ELSE IF LightVisible(drawable)
         THEN [st EXCEPT !.visibleLightsTemp = TVInsert(@, threadIndex, drawable)]
         ELSE st

\* The loop over the thread's range from position i on.  A drawable beyond
\* its draw distance ends the whole call: the loop is left with return.
RECURSIVE UpdateAndCollectSourceBatchesForThread(_, _, _, _, _)
UpdateAndCollectSourceBatchesForThread(st, threadIndex, drawables, far, i) ==
    IF i > Len(drawables) THEN st
    ELSE LET drawable == drawables[i]
             updated == [st EXCEPT !.traits[drawable] = @ \cup {"DrawableUpdated"}]
         IN IF drawable \in far
            THEN updated
            ELSE UpdateAndCollectSourceBatchesForThread(
                     ProcessDrawable(updated, threadIndex, drawable),
                     threadIndex, drawables, far, i + 1)

\* ForEachParallel over the drawables: thread 0 takes the first cut items,
\* thread 1 the rest.  The ranges touch disjoint drawables and buffers.
UpdateAllThreads(st, drawables, cut, far) ==
    UpdateAndCollectSourceBatchesForThread(
        UpdateAndCollectSourceBatchesForThread(
            st, 0, SubSeq(drawables, 1, cut), far, 1),
        1, SubSeq(drawables, cut + 1, Len(drawables)), far, 1)

-----------------------------------------------------------------------------
(* ProcessVisibleLights *)

\* The loop with the score test written as >= instead of >.
RECURSIVE FindMainLightKeepLast(_, _, _, _)
FindMainLightKeepLast(lights, i, mainLightScore, mainLight) ==
    IF i > Len(lights) THEN mainLight
    ELSE IF LightType(lights[i]) # "directional"
         THEN FindMainLightKeepLast(lights, i + 1, mainLightScore, mainLight)
         ELSE IF IntensityDivisor(lights[i]) >= mainLightScore
              THEN FindMainLightKeepLast(lights, i + 1,
                                         IntensityDivisor(lights[i]), lights[i])
              ELSE FindMainLightKeepLast(lights, i + 1, mainLightScore, mainLight)

\* The "Find main light" loop from light i on.
RECURSIVE FindMainLight(_, _, _, _)
FindMainLight(lights, i, mainLightScore, mainLight) ==
    IF i > Len(lights) THEN mainLight
    ELSE IF LightType(lights[i]) # "directional"
         THEN FindMainLight(lights, i + 1, mainLightScore, mainLight)
         ELSE IF IntensityDivisor(lights[i]) > mainLightScore
              THEN FindMainLight(lights, i + 1, IntensityDivisor(lights[i]), lights[i])
              ELSE FindMainLight(lights, i + 1, mainLightScore, mainLight)

\* Elements of a sequence that pass the filter (the set lit), in order.
RECURSIVE SelectFrom(_, _, _)
SelectFrom(s, lit, i) ==
    IF i > Len(s) THEN <<>>
    ELSE (IF s[i] \in lit THEN <<s[i]>> ELSE <<>>) \o SelectFrom(s, lit, i + 1)

\* Octree::GetDrawables for a light volume: the geometries in index order.
RECURSIVE OctreeDrawables(_)
OctreeDrawables(d) ==
    IF d \notin Drawables THEN <<>>
    ELSE (IF d \in Geometries THEN <<d>> ELSE <<>>) \o OctreeDrawables(d + 1)

\* CollectLitGeometries: what is appended to lightData.litGeometries_.
CollectLitGeometries(light, traits, visibleGeometries) ==
    IF LightType(light) = "directional"
    THEN LET lit == {drawable \in Drawables :
                        LightMask(drawable) \cap LightMask(light) # {}}
         IN SelectFrom(TVFlatten(visibleGeometries), lit, 1)
    ELSE LET lit == {drawable \in Drawables :
                        /\ "DrawableVisibleGeometry" \in traits[drawable]
                        /\ LightMask(drawable) \cap LightMask(light) # {}
                        /\ InsideLightVolume(light, drawable)}
         IN SelectFrom(OctreeDrawables(1), lit, 1)

\* The lights' LightData after the allocation and query loops.
RECURSIVE ProcessLightsFrom(_, _, _, _, _)
ProcessLightsFrom(lightData, lights, traits, visibleGeometries, i) ==
    IF i > Len(lights) THEN lightData
    ELSE ProcessLightsFrom(
             [lightData EXCEPT ![lights[i]] =
                 @ \o CollectLitGeometries(lights[i], traits, visibleGeometries)],
             lights, traits, visibleGeometries, i + 1)

\* The loop with the penalty of the main light computed like that of any
\* other light.
RECURSIVE AccumulateForwardLightingFromByDistance(_, _, _, _, _)
AccumulateForwardLightingFromByDistance(lighting, lightIndex, light, geometries, j) ==
    IF j > Len(geometries) THEN lighting
    ELSE LET geometry == geometries[j]
             accumContext == [maxPixelLights_ |-> 1,
                              lightImportance_ |-> LightImportance(light.light),
                              lightIndex_ |-> lightIndex]
             distance == IF LightDistance(light.light, geometry) > M_LARGE_EPSILON
                         THEN LightDistance(light.light, geometry)
                         ELSE M_LARGE_EPSILON
             penalty == distance * LightIntensityPenalty(light.light)
         IN AccumulateForwardLightingFromByDistance(
                [lighting EXCEPT ![geometry] = AccumulateLight(@, accumContext, penalty)],
                lightIndex, light, geometries, j + 1)

\* AccumulateForwardLighting(lightIndex) over litGeometries_ from position j.
RECURSIVE AccumulateForwardLightingFrom(_, _, _, _, _)
AccumulateForwardLightingFrom(lighting, lightIndex, light, geometries, j) ==
    IF j > Len(geometries) THEN lighting
    ELSE LET geometry == geometries[j]
             accumContext == [maxPixelLights_ |-> 1,
                              lightImportance_ |-> LightImportance(light.light),
                              lightIndex_ |-> lightIndex]
             distance == IF LightDistance(light.light, geometry) > M_LARGE_EPSILON
                         THEN LightDistance(light.light, geometry)
                         ELSE M_LARGE_EPSILON
             penalty == IF light.light = light.mainLight THEN -M_LARGE_VALUE
                        ELSE distance * LightIntensityPenalty(light.light)
         IN AccumulateForwardLightingFrom(
                [lighting EXCEPT ![geometry] = AccumulateLight(@, accumContext, penalty)],
                lightIndex, light, geometries, j + 1)

AccumulateForwardLighting(lighting, lightIndex, lights, mainLight, lightData) ==
    AccumulateForwardLightingFrom(lighting, lightIndex,
        [light |-> lights[lightIndex + 1], mainLight |-> mainLight],
        lightData[lights[lightIndex + 1]], 1)

\* The "Accumulate lighting" loop from light index i on.
RECURSIVE AccumulateAllFrom(_, _, _, _, _)
AccumulateAllFrom(lighting, lights, mainLight, lightData, i) ==
    IF i >= Len(lights) THEN lighting
    ELSE AccumulateAllFrom(
             AccumulateForwardLighting(lighting, i, lights, mainLight, lightData),
             lights, mainLight, lightData, i + 1)

-----------------------------------------------------------------------------
(* CollectSceneBaseBatches *)

SceneBatchKey(sceneBatch) ==
    SubPassPipelineStateKey(DrawableHash(sceneBatch.drawable_), sceneBatch.geometry_,
                            sceneBatch.material_, sceneBatch.pass_)

\* Phase 1 for one intermediate batch: the SceneBatch before its lookup.
MakeSceneBatch(intermediateBatch) ==
    LET drawable == intermediateBatch.geometry_
        sourceBatch == SourceBatches(drawable)[intermediateBatch.sourceBatchIndex_ + 1]
    IN [drawable_ |-> drawable, drawableIndex_ |-> drawable,
        sourceBatchIndex_ |-> intermediateBatch.sourceBatchIndex_,
        geometry_ |-> sourceBatch.geometry_,
        material_ |-> IF sourceBatch.material_ # NULL THEN sourceBatch.material_
                      ELSE DefaultMaterial,
        pass_ |-> intermediateBatch.basePass_,
        pipelineState_ |-> NoPipelineState]

\* Phase 1 from batch i on: fills the slots, looks the states up and queues
\* the slots whose lookup missed.
RECURSIVE LookupPhase(_, _, _)
LookupPhase(acc, batches, i) ==
    IF i > Len(batches) THEN acc
    ELSE LET sceneBatch == MakeSceneBatch(batches[i])
             found == GetPipelineState(acc.cache, SceneBatchKey(sceneBatch))
         IN LookupPhase(
                [acc EXCEPT
                   !.cache = found.cache,
                   !.sceneBatches = Append(@, [sceneBatch EXCEPT
                                                  !.pipelineState_ = found.result]),
                   !.withoutPipelineStates =
                       IF found.result = NoPipelineState THEN Append(@, i) ELSE @],
                batches, i + 1)

\* Phase 2 from queued slot j on.
RECURSIVE FillPhase(_, _)
FillPhase(acc, j) ==
    IF j > Len(acc.withoutPipelineStates) THEN acc
    ELSE LET slot == acc.withoutPipelineStates[j]
             key == SceneBatchKey(acc.sceneBatches[slot])
             got == GetOrCreatePipelineState(acc.cache, key,
                        CreatePipelineState(acc.created + 1, key))
         IN FillPhase(
                [acc EXCEPT
                   !.cache = got.cache,
                   !.sceneBatches[slot].pipelineState_ = got.result,
                   !.created = IF got.createdNew THEN @ + 1 ELSE @],
                j + 1)

CollectSceneBaseBatches(subPassCache, intermediateBatches, numCreated) ==
    FillPhase(
        LookupPhase([cache |-> subPassCache, sceneBatches |-> <<>>,
                     withoutPipelineStates |-> <<>>, created |-> numCreated],
                    TVFlatten(intermediateBatches), 1),
        1)

\* CollectSceneBatches from pass p on: the passes and the factory log.
RECURSIVE CollectSceneBatchesFrom(_, _)
CollectSceneBatchesFrom(acc, p) ==
    IF p > Len(acc.passes) THEN acc
    ELSE LET passData == acc.passes[p]
             unlit == CollectSceneBaseBatches(passData.unlitPipelineStateCache_,
                                              passData.unlitBatches_, acc.created)
             lit == CollectSceneBaseBatches(passData.litPipelineStateCache_,
                                            passData.litBatches_, unlit.created)
         IN CollectSceneBatchesFrom(
                [passes |-> [acc.passes EXCEPT ![p] =
                                [passData EXCEPT
                                   !.unlitPipelineStateCache_ = unlit.cache,
                                   !.unlitBaseSceneBatches_ = unlit.sceneBatches,
                                   !.litPipelineStateCache_ = lit.cache,
                                   !.litBaseSceneBatches_ = lit.sceneBatches]],
                 created |-> lit.created],
                p + 1)

\* GetBaseBatches(pass name): the registered list, or the empty list.
GetBaseBatches(name) ==
    IF GetPassIndex(name) \in DOMAIN baseBatchesLookup_
    THEN LET entry == baseBatchesLookup_[GetPassIndex(name)]
         IN IF entry[2] = "unlit" THEN passes_[entry[1]].unlitBaseSceneBatches_
            ELSE passes_[entry[1]].litBaseSceneBatches_
    ELSE <<>>

\* The final lists of all passes.
FinalBatches(passes) ==
    [p \in DOMAIN passes |-> [unlit |-> passes[p].unlitBaseSceneBatches_,
                              lit |-> passes[p].litBaseSceneBatches_]]

-----------------------------------------------------------------------------
(* Inputs *)

\* Pass descriptions handed to InitializePasses: the valid shapes of the
\* three types and two invalid ones.
PassDescription(type, unlitBase, litBase, additionalLight) ==
    [type_ |-> type, unlitBasePassName_ |-> unlitBase,
     litBasePassName_ |-> litBase, additionalLightPassName_ |-> additionalLight]

PassDescriptions ==
    { PassDescription("Unlit", "base", "", ""),
      PassDescription("ForwardLitBase", "base", "litbase", "light"),
      PassDescription("ForwardLitBase", "", "litbase", "light"),
      PassDescription("ForwardUnlitBase", "base", "", "light"),
      PassDescription("Unlit", "base", "litbase", ""),
      PassDescription("ForwardUnlitBase", "base", "litbase", "light") }

\* The pass lists an application configures: every description alone, and
\* an invalid description followed by a valid one.
PassLists ==
    {<<d>> : d \in PassDescriptions} \cup
    { << PassDescription("Unlit", "base", "litbase", ""),
         PassDescription("ForwardLitBase", "", "litbase", "light") >> }

\* Collections handed to UpdateAndCollectSourceBatches: distinct drawables
\* in any order.
DrawableLists ==
    {s \in UNION {[1..n -> Drawables] : n \in 0..Cardinality(Drawables)} :
        \A i, j \in 1..Len(s) : i # j => s[i] # s[j]}

\* The scenes: the passes each technique provides and the pass list the
\* application configures.
Worlds ==
    {[techPasses |-> [t \in Techniques |-> IF t = 2 THEN {0} ELSE PassIndices],
      materialQuality |-> 2, passes |-> passes,
      geometries |-> {1}, lights |-> {2},
      lightType |-> (2 :> "directional"), intensityDivisor |-> (2 :> 1),
      lightMask |-> [d \in {1, 2} |-> {0}],
      drawableHash |-> [d \in {1, 2} |-> d]] : passes \in PassLists}

NoInput == [drawables |-> <<>>, cut |-> 0, far |-> {}]
NoFrameLog == [collects |-> 0, factoryCalls |-> 0, previous |-> <<>>]
NoLast == [op |-> "none", key |-> SubPassPipelineStateKey(0, 0, 0, 0),
           result |-> NoPipelineState]
NoMain == [i |-> 0, p |-> 0, subset |-> "unlit", j |-> 0, call |-> 0]

-----------------------------------------------------------------------------
(* The frame pipeline *)

CacheIdle == cache_ = <<>> /\ last = NoLast
FnIdle == passArg = <<>> /\ passRet = <<>> /\ techArg = <<>> /\ techRet = <<>>

\* The collector is not part of the specifications of the cache and of the
\* pure functions.
FrameIdle ==
    /\ pc = "constructed" /\ numFrames = 0 /\ world = <<>>
    /\ traits_ = <<>> /\ visibleGeometries_ = <<>> /\ visibleLightsTemp_ = <<>>
    /\ visibleLights_ = <<>> /\ passes_ = <<>> /\ baseBatchesLookup_ = <<>>
    /\ drawableLighting_ = <<>> /\ mainLight_ = NULL
    /\ cachedLightData_ = <<>> /\ visibleLightsData_ = <<>>
    /\ input = NoInput /\ frameLog = NoFrameLog
    /\ tasks = <<>> /\ main = NoMain /\ sceneBatchesWithoutPipelineStates_ = <<>>

Init ==
    /\ CacheIdle /\ FnIdle
    /\ pc = "constructed" /\ numFrames = 0
    /\ traits_ = <<>> /\ visibleGeometries_ = <<>> /\ visibleLightsTemp_ = <<>>
    /\ visibleLights_ = <<>> /\ passes_ = <<>> /\ baseBatchesLookup_ = <<>>
    /\ drawableLighting_ = <<>> /\ mainLight_ = NULL
    /\ cachedLightData_ = <<>> /\ visibleLightsData_ = <<>>
    /\ input = NoInput /\ frameLog = NoFrameLog
    /\ tasks = <<>> /\ main = NoMain /\ sceneBatchesWithoutPipelineStates_ = <<>>
    /\ created = 0
    /\ world \in Worlds
    /\ \E h \in HashValues :
          /\ geometryHash = [g \in GeometryObjects |-> h]
          /\ materialHash = [m \in MaterialObjects |-> 0]
          /\ passHash = [p \in PassObjects |-> 0]

InitializeFrame ==
    /\ pc \in {"constructed", "collected"}
    /\ numFrames < MaxFrames
    /\ numFrames' = numFrames + 1
    /\ visibleGeometries_' = TVClear
    /\ visibleLightsTemp_' = TVClear
    /\ traits_' = [d \in Drawables |-> {}]
    /\ drawableLighting_' =
          [d \in Drawables |-> IF d \in DOMAIN drawableLighting_
                               THEN drawableLighting_[d] ELSE DrawableLightDataReset]
    /\ input' = NoInput
    /\ frameLog' = NoFrameLog
    /\ pc' = "frame"
    /\ tasks' = <<>>
    /\ main' = NoMain
    /\ UNCHANGED <<visibleLights_, passes_, baseBatchesLookup_, mainLight_,
                   cachedLightData_, visibleLightsData_, world,
                   sceneBatchesWithoutPipelineStates_>>
    /\ UNCHANGED <<cacheVars, hashVars, created, fnVars>>

\* passes_ after the first loop of InitializePasses in a build without
\* assertions: an invalid pass keeps its place and is not cleared.
ConfiguredPasses(passes) ==
    [i \in 1..Len(passes) |->
        LET resized == IF i <= Len(passes_) THEN passes_[i] ELSE PassData
            passData == [resized EXCEPT
                !.desc_ = passes[i],
                !.unlitBasePassIndex_ = GetPassIndex(passes[i].unlitBasePassName_),
                !.litBasePassIndex_ = GetPassIndex(passes[i].litBasePassName_),
                !.additionalLightPassIndex_ =
                    GetPassIndex(passes[i].additionalLightPassName_)]
        IN IF ~IsValid(passData) THEN passData ELSE PassDataClear(passData)]

\* baseBatchesLookup_ after the second loop: a later pass replaces an
\* earlier registration of the same pass index.
RECURSIVE BaseBatchesLookupFrom(_, _, _)
BaseBatchesLookupFrom(lookup, passes, i) ==
    IF i > Len(passes) THEN lookup
    ELSE LET withUnlit ==
                 IF passes[i].unlitBasePassIndex_ # M_MAX_UNSIGNED
                 THEN (passes[i].unlitBasePassIndex_ :> <<i, "unlit">>) @@ lookup
                 ELSE lookup
             withLit ==
                 IF passes[i].litBasePassIndex_ # M_MAX_UNSIGNED
                 THEN (passes[i].litBasePassIndex_ :> <<i, "lit">>) @@ withUnlit
                 ELSE withUnlit
         IN BaseBatchesLookupFrom(withLit, passes, i + 1)

\* InitializePasses.  With assertions enabled an invalid pass aborts the
\* process at assert(0); without them the loop continues.
InitializePasses(passes) ==
    /\ pc = "frame"
    /\ \/ /\ passes_' = ConfiguredPasses(passes)
          /\ baseBatchesLookup_' = BaseBatchesLookupFrom(<<>>, passes_', 1)
          /\ pc' = "configured"
       \/ /\ \E i \in 1..Len(passes) : ~IsValid(ConfiguredPasses(passes)[i])
          /\ pc' = "aborted"
          /\ UNCHANGED <<passes_, baseBatchesLookup_>>
    /\ UNCHANGED <<numFrames, traits_, visibleGeometries_, visibleLightsTemp_,
                   visibleLights_, drawableLighting_, mainLight_, cachedLightData_,
                   visibleLightsData_, world, input, frameLog>>
    /\ UNCHANGED <<cacheVars, hashVars, created, fnVars, taskVars>>

UpdateAndCollectSourceBatches(drawables, cut, far) ==
    /\ pc = "configured" \/ (pc = "frame" /\ Len(passes_) > 0)
    /\ LET st == UpdateAllThreads(
                     [traits |-> traits_, visibleGeometries |-> visibleGeometries_,
                      visibleLightsTemp |-> visibleLightsTemp_, passes |-> passes_,
                      lighting |-> drawableLighting_],
                     drawables, cut, far)
       IN /\ traits_' = st.traits
          /\ visibleGeometries_' = st.visibleGeometries
          /\ visibleLightsTemp_' = st.visibleLightsTemp
          /\ passes_' = st.passes
          /\ drawableLighting_' = st.lighting
          /\ visibleLights_' = TVFlatten(st.visibleLightsTemp)
    /\ input' = [drawables |-> drawables, cut |-> cut, far |-> far]
    /\ pc' = "updated"
    /\ UNCHANGED <<numFrames, baseBatchesLookup_, mainLight_, cachedLightData_,
                   visibleLightsData_, world, frameLog>>
    /\ UNCHANGED <<cacheVars, hashVars, created, fnVars, taskVars>>

\* ProcessVisibleLights without lightData->Clear() in the allocation loop.
ProcessVisibleLightsWithoutClear ==
    /\ pc = "updated"
    /\ mainLight_' = FindMainLight(visibleLights_, 1, 0, NULL)
    /\ visibleLightsData_' = visibleLights_
    /\ cachedLightData_' =
          ProcessLightsFrom(
              [l \in DOMAIN cachedLightData_ \cup Range(visibleLights_) |->
                  IF l \in DOMAIN cachedLightData_ THEN cachedLightData_[l] ELSE <<>>],
              visibleLights_, traits_, visibleGeometries_, 1)
    /\ drawableLighting_' =
          AccumulateAllFrom(drawableLighting_, visibleLights_, mainLight_',
                            cachedLightData_', 0)
    /\ pc' = "lit"
    /\ UNCHANGED <<numFrames, traits_, visibleGeometries_, visibleLightsTemp_,
                   visibleLights_, passes_, baseBatchesLookup_, world, input,
                   frameLog>>
    /\ UNCHANGED <<cacheVars, hashVars, created, fnVars, taskVars>>

ProcessVisibleLights ==
    /\ pc = "updated"
    /\ mainLight_' = FindMainLight(visibleLights_, 1, 0, NULL)
    /\ visibleLightsData_' = visibleLights_
    /\ cachedLightData_' =
          ProcessLightsFrom(
              [l \in DOMAIN cachedLightData_ \cup Range(visibleLights_) |->
                  IF l \in Range(visibleLights_) THEN <<>> ELSE cachedLightData_[l]],
              visibleLights_, traits_, visibleGeometries_, 1)
    /\ drawableLighting_' =
          AccumulateAllFrom(drawableLighting_, visibleLights_, mainLight_',
                            cachedLightData_', 0)
    /\ pc' = "lit"
    /\ UNCHANGED <<numFrames, traits_, visibleGeometries_, visibleLightsTemp_,
                   visibleLights_, passes_, baseBatchesLookup_, world, input,
                   frameLog>>
    /\ UNCHANGED <<cacheVars, hashVars, created, fnVars, taskVars>>

CollectSceneBatches ==
    /\ pc \in {"lit", "collected"}
    /\ frameLog.collects < MaxCollects
    /\ LET done == CollectSceneBatchesFrom([passes |-> passes_, created |-> created], 1)
       IN /\ done.created <= MaxCreated
          /\ passes_' = done.passes
          /\ created' = done.created
          /\ frameLog' = [collects |-> frameLog.collects + 1,
                          factoryCalls |-> done.created - created,
                          previous |-> IF frameLog.collects = 0 THEN <<>>
                                       ELSE FinalBatches(passes_)]
    /\ pc' = "collected"
    /\ UNCHANGED <<numFrames, traits_, visibleGeometries_, visibleLightsTemp_,
                   visibleLights_, baseBatchesLookup_, drawableLighting_, mainLight_,
                   cachedLightData_, visibleLightsData_, world, input>>
    /\ UNCHANGED <<cacheVars, hashVars, fnVars, taskVars>>

Next ==
    \/ InitializeFrame
    \/ InitializePasses(world.passes)
    \/ \E drawables \in DrawableLists :
          \E cut \in 0..Len(drawables) :
             \E far \in SUBSET Range(drawables) :
                UpdateAndCollectSourceBatches(drawables, cut, far)
    \/ ProcessVisibleLights
    \/ CollectSceneBatches

Spec == Init /\ [][Next]_vars

-----------------------------------------------------------------------------
(* The frame pipeline on scenes with several lights *)

\* What a light of the scene is like: its type, its intensity divisor and
\* its light mask.
LightProfiles ==
    << [type |-> "directional", divisor |-> 1, mask |-> {0}],
       [type |-> "directional", divisor |-> 2, mask |-> {0}],
       [type |-> "directional", divisor |-> 2, mask |-> {1}],
       [type |-> "point", divisor |-> 3, mask |-> {0}] >>

\* Scenes of one geometry (light mask {0}) and three lights, each of some
\* profile; no pass is configured.  The lights are handed over in every
\* order, so the profiles are assigned in ascending order only.
LightWorlds ==
    {[techPasses |-> [t \in Techniques |-> PassIndices],
      materialQuality |-> 2, passes |-> <<>>,
      geometries |-> {1}, lights |-> {2, 3, 4},
      lightType |-> [l \in {2, 3, 4} |-> LightProfiles[profile[l]].type],
      intensityDivisor |-> [l \in {2, 3, 4} |-> LightProfiles[profile[l]].divisor],
      lightMask |-> [d \in {1, 2, 3, 4} |->
                        IF d = 1 THEN {0} ELSE LightProfiles[profile[d]].mask],
      drawableHash |-> [d \in {1, 2, 3, 4} |-> d]] :
        profile \in {f \in [{2, 3, 4} -> 1..Len(LightProfiles)] :
                        f[2] <= f[3] /\ f[3] <= f[4]}}

InitLights ==
    /\ CacheIdle /\ FnIdle
    /\ pc = "constructed" /\ numFrames = 0
    /\ traits_ = <<>> /\ visibleGeometries_ = <<>> /\ visibleLightsTemp_ = <<>>
    /\ visibleLights_ = <<>> /\ passes_ = <<>> /\ baseBatchesLookup_ = <<>>
    /\ drawableLighting_ = <<>> /\ mainLight_ = NULL
    /\ cachedLightData_ = <<>> /\ visibleLightsData_ = <<>>
    /\ input = NoInput /\ frameLog = NoFrameLog
    /\ tasks = <<>> /\ main = NoMain /\ sceneBatchesWithoutPipelineStates_ = <<>>
    /\ created = 0
    /\ world \in LightWorlds
    /\ geometryHash = [g \in GeometryObjects |-> 0]
    /\ materialHash = [m \in MaterialObjects |-> 0]
    /\ passHash = [p \in PassObjects |-> 0]

\* The frame protocol; every drawable handed over is within its draw
\* distance, and the two threads share the drawables evenly.
NextLights ==
    \/ InitializeFrame
    \/ InitializePasses(world.passes)
    \/ \E drawables \in DrawableLists :
          UpdateAndCollectSourceBatches(drawables, Len(drawables) \div 2, {})
    \/ ProcessVisibleLights
    \/ CollectSceneBatches

SpecLights == InitLights /\ [][NextLights]_vars

-----------------------------------------------------------------------------
(* Source-batch collection over every technique (SpecClassify): each       *)
(* technique provides any subset of the passes, and the pass list is one   *)
(* valid pass of any type.                                                 *)

ValidPassDescriptions ==
    { PassDescription("Unlit", "base", "", ""),
      PassDescription("ForwardLitBase", "base", "litbase", "light"),
      PassDescription("ForwardLitBase", "", "litbase", "light"),
      PassDescription("ForwardUnlitBase", "base", "", "light") }

ClassifyWorlds ==
    {[techPasses |-> techPasses, materialQuality |-> 2, passes |-> <<desc>>,
      geometries |-> {1}, lights |-> {2},
      lightType |-> (2 :> "directional"), intensityDivisor |-> (2 :> 1),
      lightMask |-> [d \in {1, 2} |-> {0}],
      drawableHash |-> [d \in {1, 2} |-> d]] :
        techPasses \in {f \in [Techniques -> SUBSET PassIndices] : f[3] = {}},
        desc \in ValidPassDescriptions}

InitClassify ==
    /\ CacheIdle /\ FnIdle
    /\ pc = "constructed" /\ numFrames = 0
    /\ traits_ = <<>> /\ visibleGeometries_ = <<>> /\ visibleLightsTemp_ = <<>>
    /\ visibleLights_ = <<>> /\ passes_ = <<>> /\ baseBatchesLookup_ = <<>>
    /\ drawableLighting_ = <<>> /\ mainLight_ = NULL
    /\ cachedLightData_ = <<>> /\ visibleLightsData_ = <<>>
    /\ input = NoInput /\ frameLog = NoFrameLog
    /\ tasks = <<>> /\ main = NoMain /\ sceneBatchesWithoutPipelineStates_ = <<>>
    /\ created = 0
    /\ world \in ClassifyWorlds
    /\ geometryHash = [g \in GeometryObjects |-> 0]
    /\ materialHash = [m \in MaterialObjects |-> 0]
    /\ passHash = [p \in PassObjects |-> 0]

NextClassify ==
    \/ InitializeFrame
    \/ InitializePasses(world.passes)
    \/ \E drawables \in DrawableLists :
          \E cut \in 0..Len(drawables) :
             UpdateAndCollectSourceBatches(drawables, cut, {})

SpecClassify == InitClassify /\ [][NextClassify]_vars

-----------------------------------------------------------------------------
(* Batch assembly for drawables of one kind (SpecFactory): the two         *)
(* geometries either have their own pipeline-state hash or share one, so   *)
(* that their batches share their cache keys.                              *)

FactoryDrawableLists == {<<1>>, <<2, 3>>, <<1, 3, 2, 4>>, <<4, 2, 3, 1>>}

FactoryWorlds ==
    {[techPasses |-> [t \in Techniques |-> IF t = 2 THEN {0} ELSE PassIndices],
      materialQuality |-> 2,
      passes |-> << PassDescription("ForwardLitBase", "base", "litbase", "light") >>,
      geometries |-> {1, 2}, lights |-> {3, 4},
      lightType |-> (3 :> "directional" @@ 4 :> "point"),
      intensityDivisor |-> (3 :> 1 @@ 4 :> 2),
      lightMask |-> [d \in {1, 2, 3, 4} |-> {0}],
      drawableHash |-> drawableHash] :
        drawableHash \in {[d \in {1, 2, 3, 4} |-> d], [d \in {1, 2, 3, 4} |-> 1]}}

InitFactory ==
    /\ CacheIdle /\ FnIdle
    /\ pc = "constructed" /\ numFrames = 0
    /\ traits_ = <<>> /\ visibleGeometries_ = <<>> /\ visibleLightsTemp_ = <<>>
    /\ visibleLights_ = <<>> /\ passes_ = <<>> /\ baseBatchesLookup_ = <<>>
    /\ drawableLighting_ = <<>> /\ mainLight_ = NULL
    /\ cachedLightData_ = <<>> /\ visibleLightsData_ = <<>>
    /\ input = NoInput /\ frameLog = NoFrameLog
    /\ tasks = <<>> /\ main = NoMain /\ sceneBatchesWithoutPipelineStates_ = <<>>
    /\ created = 0
    /\ world \in FactoryWorlds
    /\ \E h \in HashValues :
          /\ geometryHash = [g \in GeometryObjects |-> h]
          /\ materialHash = [m \in MaterialObjects |-> 0]
          /\ passHash = [p \in PassObjects |-> 0]

NextFactory ==
    \/ InitializeFrame
    \/ InitializePasses(world.passes)
    \/ \E drawables \in FactoryDrawableLists :
          \E cut \in 0..Len(drawables) :
             UpdateAndCollectSourceBatches(drawables, cut, {})
    \/ ProcessVisibleLights
    \/ CollectSceneBatches

SpecFactory == InitFactory /\ [][NextFactory]_vars

-----------------------------------------------------------------------------
(* The frame pipeline with its parallel tasks interleaved (SpecTasks).     *)
(* The calling thread dispatches tasks and waits for them; a worker runs a *)
(* task one item at a time, whatever the calling thread is doing.          *)

\* A task of the work queue: the items of its range, the offset of the
\* range in the collection, the number of items processed so far,
\* the slots or accumulators written so far, and what the lambda captured
\* (light index; pass, subset and call of a lookup).
Task(kind, thread, items, offset, light, pass, subset, call) ==
    [kind |-> kind, thread |-> thread, status |-> "pending", items |-> items,
     offset |-> offset, pos |-> 0, written |-> {}, light |-> light,
     pass |-> pass, subset |-> subset, call |-> call]

\* ForEachParallel: the collection is split into contiguous ranges, one
\* task per non-empty range; thread 0 gets the first cut items.
ForEachParallel(task, collection, cut) ==
    (IF cut > 0
     THEN << [task EXCEPT !.thread = 0, !.items = SubSeq(collection, 1, cut),
                          !.offset = 0] >>
     ELSE <<>>)
    \o (IF cut < Len(collection)
        THEN << [task EXCEPT !.thread = 1,
                             !.items = SubSeq(collection, cut + 1, Len(collection)),
                             !.offset = cut] >>
        ELSE <<>>)

\* The tasks of a kind that have not completed.
Unfinished(kind) ==
    {t \in 1..Len(tasks) : tasks[t].kind = kind /\ tasks[t].status # "done"}

\* The work queue without the completed tasks of a kind.
RemoveDone(kind) ==
    SelectSeq(tasks, LAMBDA task : ~(task.kind = kind /\ task.status = "done"))

\* A task with one more item processed, which wrote to a slot.
Advance(task, slot, finished) ==
    [task EXCEPT !.pos = @ + 1, !.written = @ \cup {slot},
                 !.status = IF finished THEN "done" ELSE "running"]

\* The two halves of a PassData.
IntermediateOf(passData, subset) ==
    IF subset = "unlit" THEN passData.unlitBatches_ ELSE passData.litBatches_

SceneBatchesOf(passData, subset) ==
    IF subset = "unlit" THEN passData.unlitBaseSceneBatches_
    ELSE passData.litBaseSceneBatches_

CacheOf(passData, subset) ==
    IF subset = "unlit" THEN passData.unlitPipelineStateCache_
    ELSE passData.litPipelineStateCache_

WithSceneBatches(passData, subset, sceneBatches) ==
    IF subset = "unlit" THEN [passData EXCEPT !.unlitBaseSceneBatches_ = sceneBatches]
    ELSE [passData EXCEPT !.litBaseSceneBatches_ = sceneBatches]

WithCache(passData, subset, cache) ==
    IF subset = "unlit" THEN [passData EXCEPT !.unlitPipelineStateCache_ = cache]
    ELSE [passData EXCEPT !.litPipelineStateCache_ = cache]

\* &sceneBatch: the address of a slot of a final list.
SceneBatchPointer(pass, subset, slot) ==
    [pass |-> pass, subset |-> subset, slot |-> slot]

\* A value-initialised SceneBatch, as resize() appends it.
SceneBatch ==
    [drawable_ |-> NULL, drawableIndex_ |-> 0, sourceBatchIndex_ |-> 0,
     geometry_ |-> NULL, material_ |-> NULL, pass_ |-> NULL,
     pipelineState_ |-> NoPipelineState]

Resize(sceneBatches, n) ==
    [k \in 1..n |-> IF k <= Len(sceneBatches) THEN sceneBatches[k] ELSE SceneBatch]

\* ---- UpdateAndCollectSourceBatches

BeginUpdate(drawables, cut, far) ==
    /\ pc = "configured" \/ (pc = "frame" /\ Len(passes_) > 0)
    /\ tasks' = tasks \o ForEachParallel(Task("update", 0, <<>>, 0, 0, 0, "", 0),
                                         drawables, cut)
    /\ input' = [drawables |-> drawables, cut |-> cut, far |-> far]
    /\ pc' = "updating"
    /\ UNCHANGED <<numFrames, traits_, visibleGeometries_, visibleLightsTemp_,
                   visibleLights_, passes_, baseBatchesLookup_, drawableLighting_,
                   mainLight_, cachedLightData_, visibleLightsData_, world,
                   frameLog, main, sceneBatchesWithoutPipelineStates_>>
    /\ UNCHANGED <<cacheVars, hashVars, created, fnVars>>

\* One iteration of the loop of UpdateAndCollectSourceBatchesForThread; a
\* drawable beyond its draw distance ends the task.
UpdateStep(t) ==
    /\ tasks[t].kind = "update" /\ tasks[t].status # "done"
    /\ LET task == tasks[t]
           drawable == task.items[task.pos + 1]
           st == UpdateAndCollectSourceBatchesForThread(
                     [traits |-> traits_, visibleGeometries |-> visibleGeometries_,
                      visibleLightsTemp |-> visibleLightsTemp_, passes |-> passes_,
                      lighting |-> drawableLighting_],
                     task.thread, <<drawable>>, input.far, 1)
       IN /\ traits_' = st.traits
          /\ visibleGeometries_' = st.visibleGeometries
          /\ visibleLightsTemp_' = st.visibleLightsTemp
          /\ passes_' = st.passes
          /\ drawableLighting_' = st.lighting
          /\ tasks' = [tasks EXCEPT ![t] =
                          Advance(task, drawable,
                                  \/ drawable \in input.far
                                  \/ task.pos + 1 = Len(task.items))]
    /\ UNCHANGED <<pc, numFrames, visibleLights_, baseBatchesLookup_, mainLight_,
                   cachedLightData_, visibleLightsData_, world, input, frameLog,
                   main, sceneBatchesWithoutPipelineStates_>>
    /\ UNCHANGED <<cacheVars, hashVars, created, fnVars>>

\* ForEachParallel returning without waiting for its tasks.
JoinUpdateWithoutWaiting ==
    /\ pc = "updating"
    /\ visibleLights_' = TVFlatten(visibleLightsTemp_)
    /\ tasks' = RemoveDone("update")
    /\ pc' = "updated"
    /\ UNCHANGED <<numFrames, traits_, visibleGeometries_, visibleLightsTemp_,
                   passes_, baseBatchesLookup_, drawableLighting_, mainLight_,
                   cachedLightData_, visibleLightsData_, world, input, frameLog,
                   main, sceneBatchesWithoutPipelineStates_>>
    /\ UNCHANGED <<cacheVars, hashVars, created, fnVars>>

\* ForEachParallel returns when its tasks have completed; the visible
\* lights are then copied out.
JoinUpdate ==
    /\ pc = "updating"
    /\ Unfinished("update") = {}
    /\ visibleLights_' = TVFlatten(visibleLightsTemp_)
    /\ tasks' = RemoveDone("update")
    /\ pc' = "updated"
    /\ UNCHANGED <<numFrames, traits_, visibleGeometries_, visibleLightsTemp_,
                   passes_, baseBatchesLookup_, drawableLighting_, mainLight_,
                   cachedLightData_, visibleLightsData_, world, input, frameLog,
                   main, sceneBatchesWithoutPipelineStates_>>
    /\ UNCHANGED <<cacheVars, hashVars, created, fnVars>>

\* ---- ProcessVisibleLights

\* The main-light loop and the allocation loop.
BeginProcessVisibleLights ==
    /\ pc = "updated"
    /\ mainLight_' = FindMainLight(visibleLights_, 1, 0, NULL)
    /\ visibleLightsData_' = visibleLights_
    /\ cachedLightData_' =
          [l \in DOMAIN cachedLightData_ \cup Range(visibleLights_) |->
              IF l \in Range(visibleLights_) THEN <<>> ELSE cachedLightData_[l]]
    /\ main' = [main EXCEPT !.i = 0]
    /\ pc' = "dispatching"
    /\ UNCHANGED <<numFrames, traits_, visibleGeometries_, visibleLightsTemp_,
                   visibleLights_, passes_, baseBatchesLookup_, drawableLighting_,
                   world, input, frameLog, tasks,
                   sceneBatchesWithoutPipelineStates_>>
    /\ UNCHANGED <<cacheVars, hashVars, created, fnVars>>

\* The dispatch loop with Complete() called after the loop, not in it.
DispatchQueryWithoutComplete ==
    /\ pc = "dispatching"
    /\ main.i < Len(visibleLights_)
    /\ tasks' = Append(tasks, Task("query", 0, <<>>, 0, main.i, 0, "", 0))
    /\ main' = [main EXCEPT !.i = @ + 1]
    /\ pc' = "dispatching"
    /\ UNCHANGED <<numFrames, traits_, visibleGeometries_, visibleLightsTemp_,
                   visibleLights_, passes_, baseBatchesLookup_, drawableLighting_,
                   mainLight_, cachedLightData_, visibleLightsData_, world, input,
                   frameLog, sceneBatchesWithoutPipelineStates_>>
    /\ UNCHANGED <<cacheVars, hashVars, created, fnVars>>

\* AddWorkItem for light main.i; the calling thread goes on to Complete().
DispatchQuery ==
    /\ pc = "dispatching"
    /\ main.i < Len(visibleLights_)
    /\ tasks' = Append(tasks, Task("query", 0, <<>>, 0, main.i, 0, "", 0))
    /\ pc' = "completing"
    /\ UNCHANGED <<numFrames, traits_, visibleGeometries_, visibleLightsTemp_,
                   visibleLights_, passes_, baseBatchesLookup_, drawableLighting_,
                   mainLight_, cachedLightData_, visibleLightsData_, world, input,
                   frameLog, main, sceneBatchesWithoutPipelineStates_>>
    /\ UNCHANGED <<cacheVars, hashVars, created, fnVars>>

\* A thread picks the work item up.
QueryStart(t, thread) ==
    /\ tasks[t].kind = "query" /\ tasks[t].status = "pending"
    /\ tasks' = [tasks EXCEPT ![t].status = "running", ![t].thread = thread]
    /\ UNCHANGED <<pc, numFrames, traits_, visibleGeometries_, visibleLightsTemp_,
                   visibleLights_, passes_, baseBatchesLookup_, drawableLighting_,
                   mainLight_, cachedLightData_, visibleLightsData_, world, input,
                   frameLog, main, sceneBatchesWithoutPipelineStates_>>
    /\ UNCHANGED <<cacheVars, hashVars, created, fnVars>>

\* ProcessLightThreaded returns: the lit geometries are in the light's data.
QueryFinish(t) ==
    /\ tasks[t].kind = "query" /\ tasks[t].status = "running"
    /\ LET light == visibleLights_[tasks[t].light + 1]
       IN cachedLightData_' =
             [cachedLightData_ EXCEPT ![light] =
                 @ \o CollectLitGeometries(light, traits_, visibleGeometries_)]
    /\ tasks' = [tasks EXCEPT ![t] = Advance(@, tasks[t].light, TRUE)]
    /\ UNCHANGED <<pc, numFrames, traits_, visibleGeometries_, visibleLightsTemp_,
                   visibleLights_, passes_, baseBatchesLookup_, drawableLighting_,
                   mainLight_, visibleLightsData_, world, input, frameLog, main,
                   sceneBatchesWithoutPipelineStates_>>
    /\ UNCHANGED <<cacheVars, hashVars, created, fnVars>>

\* Complete() returns when no work item is left; next light.
CompleteQuery ==
    /\ pc = "completing"
    /\ Unfinished("query") = {}
    /\ main' = [main EXCEPT !.i = @ + 1]
    /\ pc' = "dispatching"
    /\ UNCHANGED <<numFrames, traits_, visibleGeometries_, visibleLightsTemp_,
                   visibleLights_, passes_, baseBatchesLookup_, drawableLighting_,
                   mainLight_, cachedLightData_, visibleLightsData_, world, input,
                   frameLog, tasks, sceneBatchesWithoutPipelineStates_>>
    /\ UNCHANGED <<cacheVars, hashVars, created, fnVars>>

\* The dispatch loop ends; the accumulation loop starts at light 0.
EndDispatch ==
    /\ pc = "dispatching"
    /\ main.i >= Len(visibleLights_)
    /\ main' = [main EXCEPT !.i = 0]
    /\ pc' = "accumulating"
    /\ UNCHANGED <<numFrames, traits_, visibleGeometries_, visibleLightsTemp_,
                   visibleLights_, passes_, baseBatchesLookup_, drawableLighting_,
                   mainLight_, cachedLightData_, visibleLightsData_, world, input,
                   frameLog, tasks, sceneBatchesWithoutPipelineStates_>>
    /\ UNCHANGED <<cacheVars, hashVars, created, fnVars>>

\* AccumulateForwardLighting(main.i): ForEachParallel over the light's lit
\* geometries.
BeginAccumulate(cut) ==
    /\ pc = "accumulating"
    /\ main.i < Len(visibleLights_)
    /\ cut <= Len(cachedLightData_[visibleLights_[main.i + 1]])
    /\ tasks' = tasks \o ForEachParallel(
                             Task("accumulate", 0, <<>>, 0, main.i, 0, "", 0),
                             cachedLightData_[visibleLights_[main.i + 1]], cut)
    /\ pc' = "accumulatingLight"
    /\ UNCHANGED <<numFrames, traits_, visibleGeometries_, visibleLightsTemp_,
                   visibleLights_, passes_, baseBatchesLookup_, drawableLighting_,
                   mainLight_, cachedLightData_, visibleLightsData_, world, input,
                   frameLog, main, sceneBatchesWithoutPipelineStates_>>
    /\ UNCHANGED <<cacheVars, hashVars, created, fnVars>>

\* One iteration of the loop over the task's geometries.
AccumulateStep(t) ==
    /\ tasks[t].kind = "accumulate" /\ tasks[t].status # "done"
    /\ LET task == tasks[t]
       IN /\ drawableLighting_' =
                AccumulateForwardLightingFrom(drawableLighting_, task.light,
                    [light |-> visibleLights_[task.light + 1],
                     mainLight |-> mainLight_],
                    <<task.items[task.pos + 1]>>, 1)
          /\ tasks' = [tasks EXCEPT ![t] =
                          Advance(task, task.items[task.pos + 1],
                                  task.pos + 1 = Len(task.items))]
    /\ UNCHANGED <<pc, numFrames, traits_, visibleGeometries_, visibleLightsTemp_,
                   visibleLights_, passes_, baseBatchesLookup_, mainLight_,
                   cachedLightData_, visibleLightsData_, world, input, frameLog,
                   main, sceneBatchesWithoutPipelineStates_>>
    /\ UNCHANGED <<cacheVars, hashVars, created, fnVars>>

\* ForEachParallel returning without waiting for its tasks.
JoinAccumulateWithoutWaiting ==
    /\ pc = "accumulatingLight"
    /\ main' = [main EXCEPT !.i = @ + 1]
    /\ tasks' = RemoveDone("accumulate")
    /\ pc' = "accumulating"
    /\ UNCHANGED <<numFrames, traits_, visibleGeometries_, visibleLightsTemp_,
                   visibleLights_, passes_, baseBatchesLookup_, drawableLighting_,
                   mainLight_, cachedLightData_, visibleLightsData_, world, input,
                   frameLog, sceneBatchesWithoutPipelineStates_>>
    /\ UNCHANGED <<cacheVars, hashVars, created, fnVars>>

\* ForEachParallel returns when its tasks have completed; next light.
JoinAccumulate ==
    /\ pc = "accumulatingLight"
    /\ Unfinished("accumulate") = {}
    /\ main' = [main EXCEPT !.i = @ + 1]
    /\ tasks' = RemoveDone("accumulate")
    /\ pc' = "accumulating"
    /\ UNCHANGED <<numFrames, traits_, visibleGeometries_, visibleLightsTemp_,
                   visibleLights_, passes_, baseBatchesLookup_, drawableLighting_,
                   mainLight_, cachedLightData_, visibleLightsData_, world, input,
                   frameLog, sceneBatchesWithoutPipelineStates_>>
    /\ UNCHANGED <<cacheVars, hashVars, created, fnVars>>

\* ProcessVisibleLights returns; its completed work items leave the
\* model's record of the queue.
EndAccumulate ==
    /\ pc = "accumulating"
    /\ main.i >= Len(visibleLights_)
    /\ tasks' = RemoveDone("query")
    /\ pc' = "lit"
    /\ UNCHANGED <<numFrames, traits_, visibleGeometries_, visibleLightsTemp_,
                   visibleLights_, passes_, baseBatchesLookup_, drawableLighting_,
                   mainLight_, cachedLightData_, visibleLightsData_, world, input,
                   frameLog, main, sceneBatchesWithoutPipelineStates_>>
    /\ UNCHANGED <<cacheVars, hashVars, created, fnVars>>

\* ---- CollectSceneBatches

BeginCollect ==
    /\ pc \in {"lit", "collected"}
    /\ frameLog.collects < MaxCollects
    /\ frameLog' = [frameLog EXCEPT
                       !.factoryCalls = 0,
                       !.previous = IF frameLog.collects = 0 THEN <<>>
                                    ELSE FinalBatches(passes_)]
    /\ main' = [main EXCEPT !.p = 1, !.subset = "unlit"]
    /\ pc' = "collecting"
    /\ UNCHANGED <<numFrames, traits_, visibleGeometries_, visibleLightsTemp_,
                   visibleLights_, passes_, baseBatchesLookup_, drawableLighting_,
                   mainLight_, cachedLightData_, visibleLightsData_, world, input,
                   tasks, sceneBatchesWithoutPipelineStates_>>
    /\ UNCHANGED <<cacheVars, hashVars, created, fnVars>>

\* CollectSceneBaseBatches up to the dispatch of phase 1.
BeginBaseBatches(cut) ==
    /\ pc = "collecting"
    /\ main.p <= Len(passes_)
    /\ LET intermediateBatches ==
               TVFlatten(IntermediateOf(passes_[main.p], main.subset))
       IN /\ cut <= Len(intermediateBatches)
          /\ sceneBatchesWithoutPipelineStates_' = TVClear
          /\ passes_' = [passes_ EXCEPT ![main.p] =
                WithSceneBatches(@, main.subset,
                    Resize(SceneBatchesOf(@, main.subset), Len(intermediateBatches)))]
          /\ tasks' = tasks \o ForEachParallel(
                          Task("lookup", 0, <<>>, 0, 0, main.p, main.subset,
                               main.call + 1),
                          intermediateBatches, cut)
    /\ main' = [main EXCEPT !.call = @ + 1]
    /\ pc' = "lookingUp"
    /\ UNCHANGED <<numFrames, traits_, visibleGeometries_, visibleLightsTemp_,
                   visibleLights_, baseBatchesLookup_, drawableLighting_,
                   mainLight_, cachedLightData_, visibleLightsData_, world, input,
                   frameLog>>
    /\ UNCHANGED <<cacheVars, hashVars, created, fnVars>>

\* One iteration of phase 1 that writes slot i instead of slot i + offset.
LookupStepWithoutOffset(t) ==
    /\ tasks[t].kind = "lookup" /\ tasks[t].status # "done"
    /\ LET task == tasks[t]
           slot == task.pos + 1
           sceneBatch == MakeSceneBatch(task.items[task.pos + 1])
           found == GetPipelineState(CacheOf(passes_[task.pass], task.subset),
                                     SceneBatchKey(sceneBatch))
       IN /\ passes_' = [passes_ EXCEPT ![task.pass] =
                WithCache(
                    WithSceneBatches(@, task.subset,
                        [SceneBatchesOf(@, task.subset) EXCEPT ![slot] =
                            [sceneBatch EXCEPT !.pipelineState_ = found.result]]),
                    task.subset, found.cache)]
          /\ sceneBatchesWithoutPipelineStates_' =
                IF found.result = NoPipelineState
                THEN TVInsert(sceneBatchesWithoutPipelineStates_, task.thread,
                              SceneBatchPointer(task.pass, task.subset, slot))
                ELSE sceneBatchesWithoutPipelineStates_
          /\ tasks' = [tasks EXCEPT ![t] =
                          Advance(task, slot, task.pos + 1 = Len(task.items))]
    /\ UNCHANGED <<pc, numFrames, traits_, visibleGeometries_, visibleLightsTemp_,
                   visibleLights_, baseBatchesLookup_, drawableLighting_,
                   mainLight_, cachedLightData_, visibleLightsData_, world, input,
                   frameLog, main>>
    /\ UNCHANGED <<cacheVars, hashVars, created, fnVars>>

\* One iteration of phase 1: slot i + offset is filled from the i-th batch
\* of the range, its state is looked up, and a miss is queued.
LookupStep(t) ==
    /\ tasks[t].kind = "lookup" /\ tasks[t].status # "done"
    /\ LET task == tasks[t]
           slot == task.pos + 1 + task.offset
           sceneBatch == MakeSceneBatch(task.items[task.pos + 1])
           found == GetPipelineState(CacheOf(passes_[task.pass], task.subset),
                                     SceneBatchKey(sceneBatch))
       IN /\ passes_' = [passes_ EXCEPT ![task.pass] =
                WithCache(
                    WithSceneBatches(@, task.subset,
                        [SceneBatchesOf(@, task.subset) EXCEPT ![slot] =
                            [sceneBatch EXCEPT !.pipelineState_ = found.result]]),
                    task.subset, found.cache)]
          /\ sceneBatchesWithoutPipelineStates_' =
                IF found.result = NoPipelineState
                THEN TVInsert(sceneBatchesWithoutPipelineStates_, task.thread,
                              SceneBatchPointer(task.pass, task.subset, slot))
                ELSE sceneBatchesWithoutPipelineStates_
          /\ tasks' = [tasks EXCEPT ![t] =
                          Advance(task, slot, task.pos + 1 = Len(task.items))]
    /\ UNCHANGED <<pc, numFrames, traits_, visibleGeometries_, visibleLightsTemp_,
                   visibleLights_, baseBatchesLookup_, drawableLighting_,
                   mainLight_, cachedLightData_, visibleLightsData_, world, input,
                   frameLog, main>>
    /\ UNCHANGED <<cacheVars, hashVars, created, fnVars>>

\* ForEachParallel returning without waiting for its tasks.
JoinLookupWithoutWaiting ==
    /\ pc = "lookingUp"
    /\ main' = [main EXCEPT !.j = 0]
    /\ tasks' = RemoveDone("lookup")
    /\ pc' = "filling"
    /\ UNCHANGED <<numFrames, traits_, visibleGeometries_, visibleLightsTemp_,
                   visibleLights_, passes_, baseBatchesLookup_, drawableLighting_,
                   mainLight_, cachedLightData_, visibleLightsData_, world, input,
                   frameLog, sceneBatchesWithoutPipelineStates_>>
    /\ UNCHANGED <<cacheVars, hashVars, created, fnVars>>

\* ForEachParallel returns when its tasks have completed; phase 2 starts.
JoinLookup ==
    /\ pc = "lookingUp"
    /\ Unfinished("lookup") = {}
    /\ main' = [main EXCEPT !.j = 0]
    /\ tasks' = RemoveDone("lookup")
    /\ pc' = "filling"
    /\ UNCHANGED <<numFrames, traits_, visibleGeometries_, visibleLightsTemp_,
                   visibleLights_, passes_, baseBatchesLookup_, drawableLighting_,
                   mainLight_, cachedLightData_, visibleLightsData_, world, input,
                   frameLog, sceneBatchesWithoutPipelineStates_>>
    /\ UNCHANGED <<cacheVars, hashVars, created, fnVars>>

\* Phase 2: the calling thread enters GetOrCreatePipelineState for the next
\* queued SceneBatch.
FillBegin ==
    /\ pc = "filling"
    /\ main.j < Len(TVFlatten(sceneBatchesWithoutPipelineStates_))
    /\ tasks' = Append(tasks,
          [Task("fill", 0, <<TVFlatten(sceneBatchesWithoutPipelineStates_)[main.j + 1]>>,
                0, 0, main.p, main.subset, main.call) EXCEPT !.status = "running"])
    /\ pc' = "creating"
    /\ UNCHANGED <<numFrames, traits_, visibleGeometries_, visibleLightsTemp_,
                   visibleLights_, passes_, baseBatchesLookup_, drawableLighting_,
                   mainLight_, cachedLightData_, visibleLightsData_, world, input,
                   frameLog, main, sceneBatchesWithoutPipelineStates_>>
    /\ UNCHANGED <<cacheVars, hashVars, created, fnVars>>

\* GetOrCreatePipelineState returns; the slot gets its state.
FillEnd ==
    /\ pc = "creating"
    /\ LET t == Len(tasks)
           sceneBatch == tasks[t].items[1]
           sceneBatches == SceneBatchesOf(passes_[sceneBatch.pass], sceneBatch.subset)
           key == SceneBatchKey(sceneBatches[sceneBatch.slot])
           got == GetOrCreatePipelineState(CacheOf(passes_[main.p], main.subset),
                                           key, CreatePipelineState(created + 1, key))
           filled == [passes_ EXCEPT ![sceneBatch.pass] =
                         WithSceneBatches(@, sceneBatch.subset,
                             [sceneBatches EXCEPT
                                 ![sceneBatch.slot].pipelineState_ = got.result])]
       IN /\ got.createdNew => created < MaxCreated
          /\ passes_' = [filled EXCEPT ![main.p] =
                            WithCache(@, main.subset, got.cache)]
          /\ created' = IF got.createdNew THEN created + 1 ELSE created
          /\ frameLog' = [frameLog EXCEPT !.factoryCalls =
                             IF got.createdNew THEN @ + 1 ELSE @]
          /\ tasks' = SubSeq(tasks, 1, t - 1)
    /\ main' = [main EXCEPT !.j = @ + 1]
    /\ pc' = "filling"
    /\ UNCHANGED <<numFrames, traits_, visibleGeometries_, visibleLightsTemp_,
                   visibleLights_, baseBatchesLookup_, drawableLighting_,
                   mainLight_, cachedLightData_, visibleLightsData_, world, input,
                   sceneBatchesWithoutPipelineStates_>>
    /\ UNCHANGED <<cacheVars, hashVars, fnVars>>

\* CollectSceneBaseBatches returns: on to the lit subset or the next pass.
EndFill ==
    /\ pc = "filling"
    /\ main.j >= Len(TVFlatten(sceneBatchesWithoutPipelineStates_))
    /\ main' = IF main.subset = "unlit" THEN [main EXCEPT !.subset = "lit"]
               ELSE [main EXCEPT !.p = @ + 1, !.subset = "unlit"]
    /\ pc' = "collecting"
    /\ UNCHANGED <<numFrames, traits_, visibleGeometries_, visibleLightsTemp_,
                   visibleLights_, passes_, baseBatchesLookup_, drawableLighting_,
                   mainLight_, cachedLightData_, visibleLightsData_, world, input,
                   frameLog, tasks, sceneBatchesWithoutPipelineStates_>>
    /\ UNCHANGED <<cacheVars, hashVars, created, fnVars>>

EndCollect ==
    /\ pc = "collecting"
    /\ main.p > Len(passes_)
    /\ frameLog' = [frameLog EXCEPT !.collects = @ + 1]
    /\ pc' = "collected"
    /\ UNCHANGED <<numFrames, traits_, visibleGeometries_, visibleLightsTemp_,
                   visibleLights_, passes_, baseBatchesLookup_, drawableLighting_,
                   mainLight_, cachedLightData_, visibleLightsData_, world, input,
                   taskVars>>
    /\ UNCHANGED <<cacheVars, hashVars, created, fnVars>>

\* ---- the scene and the inputs

\* Two geometries, a directional and a point light, one ForwardLitBase pass
\* with all three sub-passes: every geometry has an unlit and a lit batch.
TaskWorlds ==
    {[techPasses |-> [t \in Techniques |-> IF t = 2 THEN {0} ELSE PassIndices],
      materialQuality |-> 2,
      passes |-> << PassDescription("ForwardLitBase", "base", "litbase", "light") >>,
      geometries |-> {1, 2}, lights |-> {3, 4},
      lightType |-> (3 :> "directional" @@ 4 :> "point"),
      intensityDivisor |-> (3 :> 1 @@ 4 :> 2),
      lightMask |-> [d \in {1, 2, 3, 4} |-> {0}],
      drawableHash |-> [d \in {1, 2, 3, 4} |-> d]]}

TaskDrawableLists == {<<1, 3, 2, 4>>, <<4, 2, 3, 1>>}

\* The drawables that may be beyond their draw distance.
TaskFar == {{}, {2}}

InitTasks ==
    /\ CacheIdle /\ FnIdle
    /\ pc = "constructed" /\ numFrames = 0
    /\ traits_ = <<>> /\ visibleGeometries_ = <<>> /\ visibleLightsTemp_ = <<>>
    /\ visibleLights_ = <<>> /\ passes_ = <<>> /\ baseBatchesLookup_ = <<>>
    /\ drawableLighting_ = <<>> /\ mainLight_ = NULL
    /\ cachedLightData_ = <<>> /\ visibleLightsData_ = <<>>
    /\ input = NoInput /\ frameLog = NoFrameLog
    /\ tasks = <<>> /\ main = NoMain /\ sceneBatchesWithoutPipelineStates_ = <<>>
    /\ created = 0
    /\ world \in TaskWorlds
    /\ geometryHash = [g \in GeometryObjects |-> 0]
    /\ materialHash = [m \in MaterialObjects |-> 0]
    /\ passHash = [p \in PassObjects |-> 0]

NextTasks ==
    \/ InitializeFrame
    \/ InitializePasses(world.passes)
    \/ \E drawables \in TaskDrawableLists :
          \E cut \in 0..Len(drawables) :
             \E far \in TaskFar :
                BeginUpdate(drawables, cut, far)
    \/ \E t \in 1..Len(tasks) : UpdateStep(t)
    \/ JoinUpdate
    \/ BeginProcessVisibleLights
    \/ DispatchQuery
    \/ \E t \in 1..Len(tasks) : \E thread \in Threads : QueryStart(t, thread)
    \/ \E t \in 1..Len(tasks) : QueryFinish(t)
    \/ CompleteQuery
    \/ EndDispatch
    \/ \E cut \in 0..Cardinality(Geometries) : BeginAccumulate(cut)
    \/ \E t \in 1..Len(tasks) : AccumulateStep(t)
    \/ JoinAccumulate
    \/ EndAccumulate
    \/ BeginCollect
    \/ \E cut \in 0..MaxBatches : BeginBaseBatches(cut)
    \/ \E t \in 1..Len(tasks) : LookupStep(t)
    \/ JoinLookup
    \/ FillBegin
    \/ FillEnd
    \/ EndFill
    \/ EndCollect

SpecTasks == InitTasks /\ [][NextTasks]_vars

-----------------------------------------------------------------------------
(* One pipeline-state cache under arbitrary use *)

CacheGeometries == {1}
CacheMaterials == {1}
CachePasses == {11, 12}

CacheKeys ==
    {SubPassPipelineStateKey(1, g, m, p) :
        g \in CacheGeometries, m \in CacheMaterials, p \in CachePasses}

InitCache ==
    /\ CacheIdle /\ FnIdle /\ FrameIdle
    /\ created = 0
    /\ geometryHash \in [CacheGeometries -> HashValues]
    /\ materialHash \in [CacheMaterials -> HashValues]
    /\ passHash \in [CachePasses -> HashValues]

CacheGetOrCreate(key) ==
    LET got == GetOrCreatePipelineState(cache_, key,
                                        CreatePipelineState(created + 1, key))
    IN /\ got.createdNew => created < MaxCreated
       /\ cache_' = got.cache
       /\ created' = IF got.createdNew THEN created + 1 ELSE created
       /\ last' = [op |-> "GetOrCreate", key |-> key, result |-> got.result]
       /\ UNCHANGED <<hashVars, fnVars, frameVars>>

CacheLookup(key) ==
    LET found == GetPipelineState(cache_, key)
    IN /\ cache_' = found.cache
       /\ last' = [op |-> "Lookup", key |-> key, result |-> found.result]
       /\ UNCHANGED <<hashVars, created, fnVars, frameVars>>

SetGeometryHash(geometry, hash) ==
    /\ geometryHash[geometry] # hash
    /\ geometryHash' = [geometryHash EXCEPT ![geometry] = hash]
    /\ last' = [last EXCEPT !.op = "SetHash"]
    /\ UNCHANGED <<cache_, materialHash, passHash, created, fnVars, frameVars>>

SetMaterialHash(material, hash) ==
    /\ materialHash[material] # hash
    /\ materialHash' = [materialHash EXCEPT ![material] = hash]
    /\ last' = [last EXCEPT !.op = "SetHash"]
    /\ UNCHANGED <<cache_, geometryHash, passHash, created, fnVars, frameVars>>

SetPassHash(pass, hash) ==
    /\ passHash[pass] # hash
    /\ passHash' = [passHash EXCEPT ![pass] = hash]
    /\ last' = [last EXCEPT !.op = "SetHash"]
    /\ UNCHANGED <<cache_, geometryHash, materialHash, created, fnVars, frameVars>>

NextCache ==
    \/ \E key \in CacheKeys : CacheGetOrCreate(key)
    \/ \E key \in CacheKeys : CacheLookup(key)
    \/ \E g \in CacheGeometries, h \in HashValues : SetGeometryHash(g, h)
    \/ \E m \in CacheMaterials, h \in HashValues : SetMaterialHash(m, h)
    \/ \E p \in CachePasses, h \in HashValues : SetPassHash(p, h)

SpecCache == InitCache /\ [][NextCache]_vars

-----------------------------------------------------------------------------
(* PassData::IsValid on every pass type and sub-pass combination *)

\* Evaluations of IsValid on one PassData.
MaxEvals == 2

PassArgs ==
    [desc_ : [type_ : ScenePassTypes],
     unlitBasePassIndex_ : PassIndices \cup {M_MAX_UNSIGNED},
     litBasePassIndex_ : PassIndices \cup {M_MAX_UNSIGNED},
     additionalLightPassIndex_ : PassIndices \cup {M_MAX_UNSIGNED}]

InitIsValid ==
    /\ CacheIdle /\ FrameIdle
    /\ created = 0 /\ geometryHash = <<>> /\ materialHash = <<>> /\ passHash = <<>>
    /\ passArg \in PassArgs /\ passRet = <<>>
    /\ techArg = <<>> /\ techRet = <<>>

EvalIsValid ==
    /\ Len(passRet) < MaxEvals
    /\ passRet' = Append(passRet, IsValid(passArg))
    /\ UNCHANGED <<passArg, techArg, techRet, cacheVars, hashVars, created, frameVars>>

SpecIsValid == InitIsValid /\ [][EvalIsValid]_vars

-----------------------------------------------------------------------------
(* FindTechnique on every small technique list *)

\* Length of a material's technique list.
MaxTechniques == 3

QualityLevels == {0, 1}
LodDistances == {0, 1}

\* The entry at position i refers to technique i or to no technique;
\* supported stands for Technique::IsSupported() of that technique.
TechniqueEntries(i) ==
    {e \in [technique_ : {NULL, i}, supported : BOOLEAN,
            qualityLevel_ : QualityLevels, lodDistance_ : LodDistances] :
        e.technique_ = NULL => ~e.supported}

TechniqueLists ==
    UNION {{s \in [1..n -> TechniqueEntries(1) \cup TechniqueEntries(2)
                            \cup TechniqueEntries(3) \cup TechniqueEntries(4)] :
               \A i \in 1..n : s[i] \in TechniqueEntries(i)} : n \in 0..MaxTechniques}

InitFindTechnique ==
    /\ CacheIdle /\ FrameIdle
    /\ created = 0 /\ geometryHash = <<>> /\ materialHash = <<>> /\ passHash = <<>>
    /\ passArg = <<>> /\ passRet = <<>>
    /\ techArg \in [techniques : TechniqueLists, materialQuality : QualityLevels,
                     lodDistance : LodDistances]
    /\ techRet = <<>>

EvalFindTechnique ==
    /\ techRet = <<>>
    /\ techRet' = << FindTechnique(techArg.techniques, techArg.materialQuality,
                                   techArg.lodDistance) >>
    /\ UNCHANGED <<techArg, passArg, passRet, cacheVars, hashVars, created, frameVars>>

SpecFindTechnique == InitFindTechnique /\ [][EvalFindTechnique]_vars

-----------------------------------------------------------------------------
(* Properties of the pipeline-state cache (SpecCache) *)

\* C1: a GetOrCreatePipelineState(key) followed immediately by a
\* GetPipelineState with the same key and unchanged live hashes returns the
\* state object GetOrCreate returned: a hit, never a miss.
C1_GetOrCreateThenLookupHits ==
    [][\A key \in CacheKeys :
          (last.op = "GetOrCreate" /\ last.key = key /\ CacheLookup(key))
              => last'.result = last.result]_vars

\* C2: GetPipelineState never returns a stale state: whenever it returns a
\* state, the geometry, material and pass hashes that were live when the
\* state was created equal the current live hashes of the key's objects.
C2_LookupNeverStale ==
    (last.op = "Lookup" /\ last.result # NoPipelineState)
        => /\ last.result.geometryHash = geometryHash[last.key.geometry_]
           /\ last.result.materialHash = materialHash[last.key.material_]
           /\ last.result.passHash = passHash[last.key.pass_]

\* The entries of the cache whose invalidated_ flag is raised.
Invalidated == {key \in DOMAIN cache_ : cache_[key].invalidated_}

\* C24: the invalidated_ flag is sticky and only a fill clears it: while an
\* entry is flagged, GetPipelineState on its key returns a miss and every
\* step other than GetOrCreatePipelineState on that key leaves it flagged,
\* whatever the live hashes become; GetOrCreatePipelineState on that key
\* calls the factory, stores and returns the new state and leaves the flag
\* clear; and GetPipelineState changes nothing in the cache but
\* invalidated_ flags, which it only raises.
C24_InvalidatedFlagSticky ==
    [][\A key \in CacheKeys :
          /\ key \in Invalidated =>
                /\ CacheLookup(key) => last'.result = NoPipelineState
                /\ CacheGetOrCreate(key) =>
                      /\ created' = created + 1
                      /\ last'.result = CreatePipelineState(created + 1, key)
                      /\ cache_'[key].pipelineState_ = last'.result
                      /\ ~cache_'[key].invalidated_
                /\ ~CacheGetOrCreate(key) =>
                      key \in DOMAIN cache_' /\ cache_'[key].invalidated_
          /\ CacheLookup(key) =>
                /\ DOMAIN cache_' = DOMAIN cache_
                /\ \A k \in DOMAIN cache_ :
                      /\ [cache_'[k] EXCEPT !.invalidated_ = cache_[k].invalidated_]
                            = cache_[k]
                      /\ cache_[k].invalidated_ => cache_'[k].invalidated_]_vars

\* A lookup has just missed on a flagged entry that holds a state and whose
\* captured hashes equal the live hashes again.
C24_Witness ==
    /\ last.op = "Lookup" /\ last.result = NoPipelineState
    /\ last.key \in Invalidated
    /\ cache_[last.key].pipelineState_ # NoPipelineState
    /\ ~HashesDiffer(last.key, cache_[last.key])

-----------------------------------------------------------------------------
(* Properties of the frame pipeline (Spec) *)

AfterUpdate == pc \in {"updated", "lit", "collected"}

\* The drawables of the intermediate batches of a pass.
IntermediateDrawables(passData) ==
    {b.geometry_ : b \in Range(TVFlatten(passData.unlitBatches_))
                         \cup Range(TVFlatten(passData.litBatches_))}

\* The drawables of the final batches of a pass.
FinalDrawables(passData) ==
    {b.drawable_ : b \in Range(passData.unlitBaseSceneBatches_)
                         \cup Range(passData.litBaseSceneBatches_)}

\* C3: CollectSceneBatches is idempotent: a second call in a row leaves
\* every pass's final batch list as the first call produced it and makes no
\* call to the pipeline-state factory.
C3_CollectSceneBatchesIdempotent ==
    (pc = "collected" /\ frameLog.collects >= 2)
        => /\ FinalBatches(passes_) = frameLog.previous
           /\ frameLog.factoryCalls = 0

\* C4: in every frame, a drawable that was not passed to this frame's
\* UpdateAndCollectSourceBatches appears in no pass's final batch list
\* produced by this frame's CollectSceneBatches.
C4_OnlyCurrentFrameDrawables ==
    pc = "collected"
        => \A p \in DOMAIN passes_ :
              FinalDrawables(passes_[p]) \subseteq Range(input.drawables)

\* C5: a drawable beyond its draw distance affects only itself: every
\* drawable passed to UpdateAndCollectSourceBatches has the DrawableUpdated
\* trait, and every other drawable is processed: a geometry is recorded as
\* visible, a qualifying light is registered.
C5_TooFarAffectsOnlyItself ==
    AfterUpdate
        => /\ \A d \in Range(input.drawables) : "DrawableUpdated" \in traits_[d]
           /\ \A d \in Range(input.drawables) \ input.far :
                 /\ d \in Geometries =>
                       /\ "DrawableVisibleGeometry" \in traits_[d]
                       /\ d \in Range(TVFlatten(visibleGeometries_))
                 /\ (d \in Lights /\ LightVisible(d)) => d \in Range(visibleLights_)

\* C6: a drawable beyond its draw distance gets the DrawableUpdated trait
\* but neither DrawableVisibleGeometry nor ForwardLit, is in neither the
\* visible geometries nor the visible lights, and has no intermediate and
\* no final batch in any pass.
C6_TooFarDrawableProducesNothing ==
    AfterUpdate
        => \A d \in input.far :
              /\ traits_[d] = {"DrawableUpdated"}
              /\ d \notin Range(TVFlatten(visibleGeometries_))
              /\ d \notin Range(visibleLights_)
              /\ \A p \in DOMAIN passes_ :
                    /\ d \notin IntermediateDrawables(passes_[p])
                    /\ pc = "collected" => d \notin FinalDrawables(passes_[p])

\* C7: a pass whose sub-pass configuration is invalid for its type is
\* excluded from batch collection: it holds no intermediate batch after
\* UpdateAndCollectSourceBatches and no final batch after
\* CollectSceneBatches, so GetBaseBatches returns nothing of it.
C7_InvalidPassExcluded ==
    \A p \in DOMAIN passes_ :
        ~IsValid(passes_[p])
            => /\ AfterUpdate => IntermediateDrawables(passes_[p]) = {}
               /\ pc = "collected" => FinalDrawables(passes_[p]) = {}

\* The (0-based) indices of the visible lights whose lit geometries
\* include the drawable: the lights accumulated for it in this frame.
LightsAccumulatedFor(drawable) ==
    {i - 1 : i \in {j \in 1..Len(visibleLights_) :
                       drawable \in Range(cachedLightData_[visibleLights_[j]])}}

\* C10: after ProcessVisibleLights every drawable's accumulator holds at
\* most one pixel light and at most MaxVertexLights vertex lights, and the
\* lights it holds are the lowest-penalty lights among those accumulated
\* for the drawable in this frame.
C10_AccumulatorKeepsLowestPenalty ==
    pc = "lit"
        => \A d \in Drawables :
              LET lights == drawableLighting_[d]
                  kept == {lights[i].lightIndex : i \in 1..Len(lights)}
                  all == LightsAccumulatedFor(d)
                  penalty(i) == IF visibleLights_[i + 1] = mainLight_
                                THEN -M_LARGE_VALUE
                                ELSE LightDistance(visibleLights_[i + 1], d)
                                     * LightIntensityPenalty(visibleLights_[i + 1])
              IN /\ Len(lights) <= 1 + MaxVertexLights
                 /\ kept \subseteq all
                 /\ Cardinality(kept) = Len(lights)
                 /\ Len(lights) = IF Cardinality(all) < 1 + MaxVertexLights
                                  THEN Cardinality(all) ELSE 1 + MaxVertexLights
                 /\ \A i \in kept, j \in all \ kept : penalty(i) <= penalty(j)

\* The material and the technique a source batch (1-based i) of a drawable
\* resolves to.
ResolvedMaterial(d, i) ==
    IF SourceBatches(d)[i].material_ # NULL THEN SourceBatches(d)[i].material_
    ELSE DefaultMaterial

ResolvedTechnique(d, i) ==
    FindTechnique(MaterialTechniques(ResolvedMaterial(d, i)),
                  world.materialQuality, LodDistance(d))

\* What the batches of an Unlit pass with base pass index passIndex refer
\* to: one record per (visible geometry, source batch) pair whose technique
\* has that pass.
ExpectedUnlitBatches(passIndex) ==
    {[drawable_ |-> d, drawableIndex_ |-> d, sourceBatchIndex_ |-> i - 1,
      geometry_ |-> SourceBatches(d)[i].geometry_,
      material_ |-> ResolvedMaterial(d, i),
      pass_ |-> GetPass(ResolvedTechnique(d, i), passIndex)] :
        <<d, i>> \in {x \in Range(TVFlatten(visibleGeometries_)) \X {1, 2} :
                         /\ x[2] <= Len(SourceBatches(x[1]))
                         /\ ResolvedTechnique(x[1], x[2]) # NULL
                         /\ GetPass(ResolvedTechnique(x[1], x[2]), passIndex) # NULL}}

\* A SceneBatch without its pipeline state.
BatchReferences(b) ==
    [drawable_ |-> b.drawable_, drawableIndex_ |-> b.drawableIndex_,
     sourceBatchIndex_ |-> b.sourceBatchIndex_, geometry_ |-> b.geometry_,
     material_ |-> b.material_, pass_ |-> b.pass_]

\* C13: for a valid Unlit pass, after UpdateAndCollectSourceBatches and one
\* CollectSceneBatches call, GetBaseBatches(base pass name) holds exactly one
\* SceneBatch per (visible geometry, source batch) pair whose technique has
\* the base pass, and nothing else; each refers to its drawable, source
\* batch index, geometry, material (the default material when the source
\* batch has none) and base pass, and has a pipeline state.
C13_UnlitBaseBatches ==
    (/\ pc = "collected" /\ frameLog.collects = 1
     /\ Len(passes_) = 1 /\ passes_[1].desc_.type_ = "Unlit" /\ IsValid(passes_[1]))
        => LET list == GetBaseBatches(passes_[1].desc_.unlitBasePassName_)
               expected == ExpectedUnlitBatches(passes_[1].unlitBasePassIndex_)
           IN /\ {BatchReferences(list[k]) : k \in 1..Len(list)} = expected
              /\ Len(list) = Cardinality(expected)
              /\ \A k \in 1..Len(list) : list[k].pipelineState_ # NoPipelineState

\* The sub-pass names a pass was configured with.
ConfiguredNames(passData) ==
    {passData.desc_.unlitBasePassName_, passData.desc_.litBasePassName_,
     passData.desc_.additionalLightPassName_} \ {""}

\* C14: after CollectSceneBatches, every SceneBatch in the unlit or the lit
\* final list of a valid configured pass is contained in the list
\* GetBaseBatches returns for one of that pass's configured sub-pass names;
\* and a pass name with no registered list yields the empty list.
C14_FinalListsExposedByName ==
    pc = "collected"
        => /\ \A p \in DOMAIN passes_ :
                 IsValid(passes_[p])
                     => \A b \in Range(passes_[p].unlitBaseSceneBatches_)
                                 \cup Range(passes_[p].litBaseSceneBatches_) :
                           \E name \in ConfiguredNames(passes_[p]) :
                              b \in Range(GetBaseBatches(name))
           /\ \A name \in {"base", "litbase", "light", "shadow"} :
                 GetPassIndex(name) \notin DOMAIN baseBatchesLookup_
                     => GetBaseBatches(name) = <<>>

-----------------------------------------------------------------------------
(* Properties of light processing (SpecLights) *)

AfterProcessVisibleLights == pc \in {"lit", "collected"}

\* Positions in visibleLights_ of the directional lights, and of those
\* among them that have the greatest score.
DirectionalPositions ==
    {i \in 1..Len(visibleLights_) : LightType(visibleLights_[i]) = "directional"}

GreatestScorePositions ==
    {i \in DirectionalPositions :
        \A j \in DirectionalPositions :
            IntensityDivisor(visibleLights_[j]) <= IntensityDivisor(visibleLights_[i])}

\* C11: after ProcessVisibleLights the main light is the first light, in
\* visible-light order, among the visible directional lights of greatest
\* score (GetIntensityDivisor), and no light when no directional light is
\* visible.  So a non-directional light is never selected, and the
\* selection depends only on the order of the lights of greatest score.
C11_MainLightSelection ==
    AfterProcessVisibleLights
        => IF DirectionalPositions = {} THEN mainLight_ = NULL
           ELSE /\ mainLight_ # NULL
                /\ LightType(mainLight_) = "directional"
                /\ \E i \in GreatestScorePositions :
                      /\ mainLight_ = visibleLights_[i]
                      /\ \A j \in GreatestScorePositions : i <= j

\* Two directional lights share the greatest score among the directional
\* ones, a point light of still greater score and a directional light of
\* smaller score are visible too, and the first of the two was selected
\* although it is not the first visible light.
C11_Witness ==
    /\ pc = "lit"
    /\ Cardinality(GreatestScorePositions) >= 2
    /\ \E i \in 1..Len(visibleLights_) :
          /\ LightType(visibleLights_[i]) # "directional"
          /\ \A j \in DirectionalPositions :
                IntensityDivisor(visibleLights_[j]) < IntensityDivisor(visibleLights_[i])
    /\ 1 \notin GreatestScorePositions
    /\ \E i \in GreatestScorePositions :
          mainLight_ = visibleLights_[i] /\ \A j \in GreatestScorePositions : i <= j

\* C12: after ProcessVisibleLights, every visible geometry whose light mask
\* intersects the mask of the selected main light has the main light as the
\* pixel light of its accumulator, whatever other lights affect it and in
\* whatever order the lights were accumulated.
C12_PixelLightIsMainLight ==
    (AfterProcessVisibleLights /\ mainLight_ # NULL)
        => \A d \in Range(TVFlatten(visibleGeometries_)) :
              LightMask(d) \cap LightMask(mainLight_) # {}
                  => /\ Len(drawableLighting_[d]) >= 1
                     /\ visibleLights_[drawableLighting_[d][1].lightIndex + 1]
                            = mainLight_

\* The main light is the pixel light of a geometry although it was not the
\* first light accumulated and another accumulated light is nearer or
\* brighter.
C12_Witness ==
    /\ pc = "lit"
    /\ mainLight_ # NULL
    /\ \E d \in Range(TVFlatten(visibleGeometries_)) :
          LET lights == drawableLighting_[d]
          IN /\ LightMask(d) \cap LightMask(mainLight_) # {}
             /\ Len(lights) >= 2
             /\ lights[1].lightIndex >= 1
             /\ visibleLights_[lights[1].lightIndex + 1] = mainLight_
             /\ \E k \in 2..Len(lights) :
                   LightIntensityPenalty(visibleLights_[lights[k].lightIndex + 1])
                       < LightIntensityPenalty(mainLight_)

\* C22: after ProcessVisibleLights, slot i of the per-light data is the data
\* of visible light i and no two visible lights share their data; the
\* lit-geometry list of every visible light holds only geometries that are
\* visible in the current frame, carry the DrawableVisibleGeometry trait
\* and have a light mask intersecting the light's; and the list of a
\* directional light holds every such geometry exactly once.
C22_LitGeometryLists ==
    AfterProcessVisibleLights =>
       LET visible == Range(TVFlatten(visibleGeometries_))
       IN /\ Len(visibleLightsData_) = Len(visibleLights_)
          /\ \A i \in 1..Len(visibleLights_) :
                /\ visibleLightsData_[i] = visibleLights_[i]
                /\ \A j \in 1..Len(visibleLights_) :
                      visibleLightsData_[i] = visibleLightsData_[j] => i = j
          /\ \A i \in 1..Len(visibleLights_) :
                LET light == visibleLights_[i]
                    litGeometries == cachedLightData_[visibleLightsData_[i]]
                IN /\ \A k \in 1..Len(litGeometries) :
                         /\ litGeometries[k] \in visible
                         /\ "DrawableVisibleGeometry" \in traits_[litGeometries[k]]
                         /\ LightMask(litGeometries[k]) \cap LightMask(light) # {}
                   /\ LightType(light) = "directional" =>
                         \A d \in visible :
                            LightMask(d) \cap LightMask(light) # {} =>
                               Cardinality({k \in 1..Len(litGeometries) :
                                               litGeometries[k] = d}) = 1

\* Second frame: a directional light lists the visible geometry, a visible
\* light of another mask lists nothing, and a light that is not visible in
\* this frame still has the list of the frame before.
C22_Witness ==
    /\ pc = "lit" /\ numFrames = 2
    /\ \E i \in 1..Len(visibleLights_) :
          /\ LightType(visibleLights_[i]) = "directional"
          /\ cachedLightData_[visibleLights_[i]] = <<1>>
    /\ \E i \in 1..Len(visibleLights_) : cachedLightData_[visibleLights_[i]] = <<>>
    /\ \E l \in DOMAIN cachedLightData_ :
          l \notin Range(visibleLights_) /\ cachedLightData_[l] # <<>>

\* The light indices GetVertexLights(drawableIndex) looks up in
\* visibleLights_.
VertexLightIndices(drawableIndex) ==
    {GetVertexLightIndices(drawableLighting_[drawableIndex])[i] :
        i \in 1..MaxVertexLights} \ {M_MAX_UNSIGNED}

\* C23: after ProcessVisibleLights in any frame, for every drawable index,
\* every light index its accumulator holds is an index into the current
\* visibleLights_, and the vertex lights GetVertexLights returns for it are
\* lights accumulated for that drawable in the current frame.
C23_NoAccumulationAcrossFrames ==
    AfterProcessVisibleLights =>
       \A d \in DOMAIN drawableLighting_ :
          /\ \A k \in 1..Len(drawableLighting_[d]) :
                drawableLighting_[d][k].lightIndex < Len(visibleLights_)
          /\ VertexLightIndices(d) \subseteq LightsAccumulatedFor(d)

-----------------------------------------------------------------------------
(* Properties of the interleaved tasks (SpecTasks) *)

\* The tasks of a kind that a thread has picked up.
Started(kind) ==
    {t \in 1..Len(tasks) : tasks[t].kind = kind /\ tasks[t].status # "pending"}

\* The tasks of a kind that a thread is running.
Running(kind) ==
    {t \in 1..Len(tasks) : tasks[t].kind = kind /\ tasks[t].status = "running"}

\* The light indices whose geometry query has completed.
QueriedLights ==
    {tasks[t].light : t \in Started("query") \ Unfinished("query")}

\* C15: the phases of a frame are strictly ordered: a light's geometry
\* query starts only when no source-batch collection task is unfinished, an
\* accumulation task starts only when the query of every visible light has
\* completed, and GetOrCreatePipelineState is entered only when no lookup
\* task of that cache is unfinished.
C15_PhasesStrictlyOrdered ==
    /\ Started("query") # {} => Unfinished("update") = {}
    /\ Started("accumulate") # {} =>
          /\ Unfinished("query") = {}
          /\ \A i \in 1..Len(visibleLights_) : i - 1 \in QueriedLights
    /\ \A f \in Running("fill") :
          \A t \in Unfinished("lookup") :
             ~(tasks[t].pass = tasks[f].pass /\ tasks[t].subset = tasks[f].subset)

\* Two update tasks and two light queries ran, both lights accumulated, and
\* phase 2 of the lit batches is in GetOrCreatePipelineState after a phase 1
\* of two tasks.
C15_Witness ==
    /\ pc = "creating"
    /\ input.cut \in 1..(Len(input.drawables) - 1)
    /\ Len(visibleLights_) = 2
    /\ \A d \in Geometries : Len(drawableLighting_[d]) = 2
    /\ main.subset = "lit"
    /\ \A thread \in Threads :
          sceneBatchesWithoutPipelineStates_[thread + 1] # <<>>

\* The tasks that read (lookup) or write (fill) the cache of a pass subset
\* and have started but not completed.
InProgressOn(kind, pass, subset) ==
    {t \in Running(kind) : tasks[t].pass = pass /\ tasks[t].subset = subset}

\* C16: single writer, many readers: while a GetOrCreatePipelineState call
\* on a cache is in progress no task is reading that cache with
\* GetPipelineState, and no other GetOrCreatePipelineState call on that
\* cache is in progress.
C16_SingleWriterMultiReader ==
    \A pass \in 1..Len(passes_) : \A subset \in {"unlit", "lit"} :
       InProgressOn("fill", pass, subset) # {} =>
          /\ InProgressOn("lookup", pass, subset) = {}
          /\ Cardinality(InProgressOn("fill", pass, subset)) = 1

\* The second fill of the unlit cache is in progress: the cache already
\* holds the state the first fill created, after two readers missed.
C16_Witness ==
    /\ InProgressOn("fill", 1, "unlit") # {}
    /\ main.j = 1
    /\ DOMAIN passes_[1].unlitPipelineStateCache_ # {}
    /\ Len(sceneBatchesWithoutPipelineStates_[1]) = 1
    /\ Len(sceneBatchesWithoutPipelineStates_[2]) = 1

\* The accumulation tasks of one light.
AccumulateTasks(light) ==
    {t \in 1..Len(tasks) : tasks[t].kind = "accumulate" /\ tasks[t].light = light}

\* C17: no accumulator is mutated by two tasks at once: an accumulation
\* task of a light has started only if no accumulation task of another
\* light is unfinished, and the ranges of one light's tasks hold each
\* drawable of its lit-geometry list exactly once, so that no two tasks
\* have written the same accumulator.
C17_AccumulatorsNotShared ==
    /\ \A t \in Started("accumulate") :
          \A u \in Unfinished("accumulate") : tasks[u].light = tasks[t].light
    /\ \A t \in 1..Len(tasks) :
          tasks[t].kind = "accumulate" =>
             LET litGeometries == cachedLightData_[visibleLights_[tasks[t].light + 1]]
                 mine == AccumulateTasks(tasks[t].light)
             IN /\ \A k \in 1..Len(litGeometries) :
                      Cardinality({u \in mine :
                          \E n \in 1..Len(tasks[u].items) :
                             /\ n + tasks[u].offset = k
                             /\ tasks[u].items[n] = litGeometries[k]}) = 1
                /\ \A u \in mine :
                      \A n, m \in 1..Len(tasks[u].items) :
                         tasks[u].items[n] = tasks[u].items[m] => n = m
                /\ \A u \in mine \ {t} :
                      tasks[u].written \cap tasks[t].written = {}

\* The second light is being accumulated by two tasks, one geometry each;
\* both have written their accumulator, which already holds the first light.
C17_Witness ==
    /\ pc = "accumulatingLight"
    /\ main.i = 1
    /\ Cardinality(AccumulateTasks(1)) = 2
    /\ \A t \in AccumulateTasks(1) :
          /\ tasks[t].status = "done"
          /\ \E d \in tasks[t].written : Len(drawableLighting_[d]) = 2

\* The query tasks dispatched for one light index.
QueryTasks(light) ==
    {t \in 1..Len(tasks) : tasks[t].kind = "query" /\ tasks[t].light = light}

\* C18: at most one light-geometry query is in flight: there is never more
\* than one uncompleted query task, a light's task is dispatched only when
\* the tasks of the lights before it have completed, and when the dispatch
\* loop ends every visible light has exactly one query task, which has
\* completed after running once.
C18_OneQueryInFlight ==
    /\ Cardinality(Unfinished("query")) <= 1
    /\ \A t \in 1..Len(tasks) :
          tasks[t].kind = "query" =>
             \A u \in Unfinished("query") : tasks[u].light >= tasks[t].light
    /\ (pc = "dispatching" /\ main.i >= Len(visibleLights_)) =>
          \A i \in 1..Len(visibleLights_) :
             /\ Cardinality(QueryTasks(i - 1)) = 1
             /\ \A t \in QueryTasks(i - 1) :
                   tasks[t].status = "done" /\ tasks[t].pos = 1

\* The dispatch loop has ended for two visible lights whose queries ran on
\* different threads and found both geometries.
C18_Witness ==
    /\ pc = "dispatching"
    /\ main.i = 2
    /\ Len(visibleLights_) = 2
    /\ \E t \in QueryTasks(0) : \E u \in QueryTasks(1) :
          tasks[t].thread # tasks[u].thread
    /\ \A light \in Range(visibleLights_) : Len(cachedLightData_[light]) = 2

\* The lists of the CollectSceneBaseBatches call in progress.
CurrentIntermediate == TVFlatten(IntermediateOf(passes_[main.p], main.subset))

CurrentSceneBatches == SceneBatchesOf(passes_[main.p], main.subset)

CurrentQueue == TVFlatten(sceneBatchesWithoutPipelineStates_)

\* Slot k of the final list holds the batch built from the k-th intermediate
\* batch, whatever its pipeline state.
BuiltFrom(k) ==
    [CurrentSceneBatches[k] EXCEPT !.pipelineState_ = NoPipelineState]
        = MakeSceneBatch(CurrentIntermediate[k])

\* C19: phase 1 does not depend on the partition: during a call of
\* CollectSceneBaseBatches the final list is as long as the list of
\* intermediate batches; every slot a task has written, and after the join
\* every slot, holds the batch built from the intermediate batch of the same
\* index; no slot is written by two tasks; when phase 2 starts the queue
\* holds exactly the slots without a state, each once; and when phase 2 ends
\* every slot has a non-null state.
C19_PhaseOneIndependentOfPartition ==
    pc \in {"lookingUp", "filling", "creating"} =>
       /\ Len(CurrentSceneBatches) = Len(CurrentIntermediate)
       /\ \A t \in 1..Len(tasks) :
             tasks[t].kind = "lookup" =>
                /\ \A k \in tasks[t].written : BuiltFrom(k)
                /\ \A u \in 1..Len(tasks) :
                      (u # t /\ tasks[u].kind = "lookup") =>
                         tasks[u].written \cap tasks[t].written = {}
       /\ pc \in {"filling", "creating"} =>
             \A k \in 1..Len(CurrentIntermediate) : BuiltFrom(k)
       /\ (pc = "filling" /\ main.j = 0) =>
             /\ \A n, m \in 1..Len(CurrentQueue) :
                   CurrentQueue[n] = CurrentQueue[m] => n = m
             /\ Range(CurrentQueue) =
                   {SceneBatchPointer(main.p, main.subset, k) :
                       k \in {n \in 1..Len(CurrentSceneBatches) :
                          CurrentSceneBatches[n].pipelineState_ = NoPipelineState}}
       /\ (pc = "filling" /\ main.j >= Len(CurrentQueue)) =>
             \A k \in 1..Len(CurrentSceneBatches) :
                CurrentSceneBatches[k].pipelineState_ # NoPipelineState

\* Phase 2 has ended for a list of two batches that two tasks filled, thread
\* 1 before thread 0; one lookup hit and the other missed.
C19_Witness ==
    /\ pc = "filling"
    /\ Len(CurrentSceneBatches) = 2
    /\ CurrentSceneBatches[1].drawable_ # CurrentSceneBatches[2].drawable_
    /\ sceneBatchesWithoutPipelineStates_[1] = <<>>
    /\ Len(sceneBatchesWithoutPipelineStates_[2]) = 1
    /\ main.j = 1
    /\ \A k \in 1..2 : CurrentSceneBatches[k].pipelineState_ # NoPipelineState

-----------------------------------------------------------------------------
(* Properties of source-batch collection (SpecClassify) *)

\* The intermediate batches a list holds for source batch i (1-based) of
\* drawable d.
BatchesFor(batches, d, i) ==
    {b \in Range(TVFlatten(batches)) :
        b.geometry_ = d /\ b.sourceBatchIndex_ = i - 1}

\* The (visible geometry, source batch) pairs whose technique resolves.
CollectedSourceBatches ==
    {x \in Range(TVFlatten(visibleGeometries_)) \X {1, 2} :
        /\ x[2] <= Len(SourceBatches(x[1]))
        /\ ResolvedTechnique(x[1], x[2]) # NULL}

\* C20: after source-batch collection, for every pass and every collected
\* source batch: if the technique has the additional-light pass, the pass's
\* lit batches hold a batch for it whose primary pass is the lit-base pass
\* when the technique has it and the base pass otherwise, the drawable is
\* marked ForwardLit, and the unlit batches hold none; otherwise, if the
\* technique has the base pass, the unlit batches hold a batch with the base
\* pass and the lit batches none; otherwise neither list holds a batch.
\* Nothing is required of a source batch whose technique has the
\* additional-light pass but neither primary pass.
C20_IntermediateBatchClassification ==
    pc = "updated" =>
       \A p \in 1..Len(passes_) : \A x \in CollectedSourceBatches :
          LET technique == ResolvedTechnique(x[1], x[2])
              unlitBasePass == GetPass(technique, passes_[p].unlitBasePassIndex_)
              litBasePass == GetPass(technique, passes_[p].litBasePassIndex_)
              additionalLightPass ==
                  GetPass(technique, passes_[p].additionalLightPassIndex_)
              unlit == BatchesFor(passes_[p].unlitBatches_, x[1], x[2])
              lit == BatchesFor(passes_[p].litBatches_, x[1], x[2])
          IN IF /\ additionalLightPass # NULL
                /\ litBasePass = NULL /\ unlitBasePass = NULL
             THEN TRUE
             ELSE IF additionalLightPass # NULL
             THEN /\ lit = {IntermediateSceneBatch(x[1], x[2] - 1,
                                IF litBasePass # NULL THEN litBasePass
                                ELSE unlitBasePass, additionalLightPass)}
                  /\ "ForwardLit" \in traits_[x[1]]
                  /\ unlit = {}
             ELSE IF unlitBasePass # NULL
             THEN /\ unlit = {IntermediateSceneBatch(x[1], x[2] - 1,
                                  unlitBasePass, NULL)}
                  /\ lit = {}
             ELSE unlit = {} /\ lit = {}

-----------------------------------------------------------------------------
(* Properties of batch assembly (SpecFactory) *)

\* The final lists, one per CollectSceneBaseBatches call.
FinalLists ==
    {passes_[p].unlitBaseSceneBatches_ : p \in 1..Len(passes_)}
        \cup {passes_[p].litBaseSceneBatches_ : p \in 1..Len(passes_)}

\* C21: after CollectSceneBatches, the batches of one final list that share
\* their cache key hold the same pipeline-state object, and the factory was
\* called at most once per distinct key of each list.
C21_FactoryOncePerKey ==
    pc = "collected" =>
       /\ \A list \in FinalLists : \A k, m \in 1..Len(list) :
             SceneBatchKey(list[k]) = SceneBatchKey(list[m])
                => list[k].pipelineState_ = list[m].pipelineState_
       /\ Len(passes_) = 1 =>
             frameLog.factoryCalls <=
                Cardinality({SceneBatchKey(passes_[1].unlitBaseSceneBatches_[k]) :
                                k \in 1..Len(passes_[1].unlitBaseSceneBatches_)})
                + Cardinality({SceneBatchKey(passes_[1].litBaseSceneBatches_[k]) :
                                  k \in 1..Len(passes_[1].litBaseSceneBatches_)})

-----------------------------------------------------------------------------
(* Properties of the pure functions *)

\* C8: IsValid is true exactly for Unlit with the base sub-pass only, for
\* ForwardUnlitBase with base and additional-light but no lit-base, and for
\* ForwardLitBase with lit-base and additional-light (with or without
\* base); every evaluation gives that answer.
C8_IsValidTable ==
    \A n \in 1..Len(passRet) :
        LET base == passArg.unlitBasePassIndex_ # M_MAX_UNSIGNED
            litBase == passArg.litBasePassIndex_ # M_MAX_UNSIGNED
            light == passArg.additionalLightPassIndex_ # M_MAX_UNSIGNED
            type == passArg.desc_.type_
        IN passRet[n] <=>
              \/ type = "Unlit" /\ base /\ ~litBase /\ ~light
              \/ type = "ForwardUnlitBase" /\ base /\ ~litBase /\ light
              \/ type = "ForwardLitBase" /\ litBase /\ light

\* IsValid was evaluated twice on a ForwardLitBase pass that has all three
\* sub-passes, and accepted it.
C8_Witness ==
    /\ Len(passRet) >= 2
    /\ passArg # <<>>
    /\ passArg.desc_.type_ = "ForwardLitBase"
    /\ passArg.unlitBasePassIndex_ # M_MAX_UNSIGNED
    /\ passArg.litBasePassIndex_ # M_MAX_UNSIGNED
    /\ passArg.additionalLightPassIndex_ # M_MAX_UNSIGNED
    /\ passRet[1] /\ passRet[2]

\* Entry i of the technique list passes the checks of the scan.
TechniqueQualifies(i) ==
    LET entry == techArg.techniques[i]
    IN /\ entry.technique_ # NULL
       /\ entry.supported
       /\ entry.qualityLevel_ <= techArg.materialQuality
       /\ entry.lodDistance_ <= techArg.lodDistance

\* C9: FindTechnique returns the only technique of a one-entry list;
\* otherwise the first entry in declared order that is present, supported,
\* of a quality level not above the material quality and of a LOD distance
\* not above the drawable's; the last entry's technique if no entry
\* qualifies; and none for an empty list.
C9_FindTechniqueResult ==
    techRet # <<>>
        => LET techniques == techArg.techniques
               qualifying == {i \in 1..Len(techniques) : TechniqueQualifies(i)}
               first == CHOOSE i \in qualifying : \A j \in qualifying : i <= j
           IN techRet[1] =
                 IF Len(techniques) = 1 THEN techniques[1].technique_
                 ELSE IF qualifying # {} THEN techniques[first].technique_
                 ELSE IF Len(techniques) > 0
                      THEN techniques[Len(techniques)].technique_
                 ELSE NULL

\* FindTechnique skipped a first entry that is present and supported but
\* whose LOD distance is too large, and returned the second entry.
C9_Witness ==
    /\ techRet # <<>>
    /\ techArg # <<>>
    /\ Len(techArg.techniques) >= 2
    /\ techArg.techniques[1].technique_ # NULL
    /\ techArg.techniques[1].supported
    /\ techArg.techniques[1].qualityLevel_ <= techArg.materialQuality
    /\ techArg.techniques[1].lodDistance_ > techArg.lodDistance
    /\ TechniqueQualifies(2)
    /\ techRet[1] = 2

====
